---- MODULE Spec2Model ----
(***************************************************************************)
(* A model of stakker_tui: the page/row engine (src/src/page.rs), the      *)
(* output buffer (src/src/termout.rs) and the terminal controller          *)
(* (src/src/terminal.rs over src/src/os_mio_unix.rs).                      *)
(*                                                                         *)
(* Bytes are integers 0..255, byte strings are sequences of bytes, and a   *)
(* Scan<'a>(&'a [u8]) is the sequence of bytes it has still to read.       *)
(* u16 arithmetic is taken modulo 2^16; where the Rust build traps an      *)
(* overflow (overflow-checks on) the operation panics instead, and the     *)
(* variable overflow_checks says which build is running.                   *)
(***************************************************************************)
EXTENDS Integers, Sequences, FiniteSets, TLC

\* ---------------------------------------------------------------- bounds
MaxSy == 2          \* page height
MaxSx == 3          \* largest page width
MaxOps == 2         \* region operations applied to a page
MaxBuf == 2         \* bytes held by the output buffer

\* ---------------------------------------------------- program constants
ERR_HFB == 162
U16 == 65536
HFB_BASE == 57344   \* 0xE000
HFB_TOP == 63743    \* 0xF8FF
HFB_END == 63744    \* 0xF900
CMD_MIN == 248      \* 0xF8: first byte that is a command, not UTF-8

Min(a, b) == IF a < b THEN a ELSE b
Max(a, b) == IF a > b THEN a ELSE b
AsU16(v) == v % U16
Drop(s, n) == SubSeq(s, n + 1, Len(s))
Take(s, n) == SubSeq(s, 1, n)
\* F(x) with x bound to the value of e.
Bind(e, F(_)) == CHOOSE r \in {F(x) : x \in {e}} : TRUE

\* ------------------------------------------------------------------ Scan
\* (b & 0xC0) == 0x80
IsCont(b) == b >= 128 /\ b < 192

MeasOne(s) == [m |-> "Glyph", v |-> 1, rest |-> Drop(s, 1)]
MeasPanic(s) == [m |-> "Panic", v |-> 0, rest |-> s]

\* Scan::measure: the length tests read `len <= N`, so a multi-byte form is
\* taken only when it is the whole of what is left; indexing past the end
\* of a shorter slice panics.
Measure(s) ==
    IF Len(s) = 0 THEN [m |-> "End", v |-> 0, rest |-> s]
    ELSE IF s[1] >= CMD_MIN THEN [m |-> "End", v |-> 0, rest |-> s]
    ELSE IF s[1] < 192 THEN MeasOne(s)
    ELSE IF s[1] < 224 THEN
        IF Len(s) <= 2
        THEN IF Len(s) < 2 THEN MeasPanic(s)
             ELSE IF IsCont(s[2])
                  THEN [m |-> "Glyph", v |-> 1, rest |-> Drop(s, 2)]
                  ELSE MeasOne(s)
        ELSE MeasOne(s)
    ELSE IF s[1] < 240 THEN
        IF Len(s) <= 3
        THEN IF Len(s) < 2 THEN MeasPanic(s)
             ELSE IF ~IsCont(s[2]) THEN MeasOne(s)
             ELSE IF Len(s) < 3 THEN MeasPanic(s)
             ELSE IF ~IsCont(s[3]) THEN MeasOne(s)
             ELSE LET v == (s[1] % 16) * 4096 + (s[2] % 64) * 64 IN
                  IF v >= HFB_BASE /\ v < HFB_END
                  THEN [m |-> "Attr", v |-> v + (s[3] % 64) - HFB_BASE,
                        rest |-> Drop(s, 3)]
                  ELSE [m |-> "Glyph", v |-> 1, rest |-> Drop(s, 3)]
        ELSE MeasOne(s)
    ELSE
        IF Len(s) <= 4
        THEN IF Len(s) < 2 THEN MeasPanic(s)
             ELSE IF ~IsCont(s[2]) THEN MeasOne(s)
             ELSE IF Len(s) < 3 THEN MeasPanic(s)
             ELSE IF ~IsCont(s[3]) THEN MeasOne(s)
             ELSE IF Len(s) < 4 THEN MeasPanic(s)
             ELSE IF ~IsCont(s[4]) THEN MeasOne(s)
             ELSE [m |-> "Glyph", v |-> 1, rest |-> Drop(s, 4)]
        ELSE MeasOne(s)

\* Scan::measure_rest: the width of what is left, or -1 if measure panics.
RECURSIVE MeasureRestFrom(_, _)
MeasureRestFrom(s, x) ==
    Bind(Measure(s), LAMBDA m :
    CASE m.m = "Glyph" -> MeasureRestFrom(m.rest, x + m.v)
      [] m.m = "Attr" -> MeasureRestFrom(m.rest, x)
      [] m.m = "End" -> x
      [] OTHER -> -1)

MeasureRest(s) == MeasureRestFrom(s, 0)

\* Scan::slice_to: from the point of `start` to the point of `end`.
SliceTo(start, end) == Take(start, Len(start) - Len(end))

\* Scan::get_arg: [ok, v, rest]; not ok is the panic "Expecting command
\* argument value".
GetArg(s) ==
    IF Len(s) = 0 THEN [ok |-> FALSE, v |-> 0, rest |-> s]
    ELSE IF s[1] < 128 THEN [ok |-> TRUE, v |-> s[1], rest |-> Drop(s, 1)]
    ELSE IF Len(s) < 2 THEN [ok |-> FALSE, v |-> 0, rest |-> Drop(s, 1)]
    ELSE [ok |-> TRUE, v |-> (s[1] - 128) * 256 + s[2], rest |-> Drop(s, 2)]

\* Scan::get_span(x): k is "none" at the end of the data, "span", or "panic"
\* (no span command where one is expected, or a truncated argument).
GetSpan(s, x) ==
    LET none == [k |-> "none", shift |-> 0, x |-> x, sx |-> 0, rest |-> s]
        bad == [k |-> "panic", shift |-> 0, x |-> x, sx |-> 0, rest |-> s]
    IN
    IF Len(s) = 0 THEN none
    ELSE Bind(GetArg(Drop(s, 1)), LAMBDA a1 :
         Bind(GetArg(a1.rest), LAMBDA a2 :
         Bind(GetArg(a2.rest), LAMBDA a3 :
         CASE s[1] = 252 ->
                IF a1.ok
                THEN [k |-> "span", shift |-> 0, x |-> x, sx |-> a1.v,
                      rest |-> a1.rest]
                ELSE bad
           [] s[1] = 253 ->
                IF a1.ok /\ a2.ok
                THEN [k |-> "span", shift |-> a1.v, x |-> x, sx |-> a2.v,
                      rest |-> a2.rest]
                ELSE bad
           [] s[1] = 254 ->
                IF a1.ok /\ a2.ok
                THEN [k |-> "span", shift |-> 0, x |-> a1.v, sx |-> a2.v,
                      rest |-> a2.rest]
                ELSE bad
           [] s[1] = 255 ->
                IF a1.ok /\ a2.ok /\ a3.ok
                THEN [k |-> "span", shift |-> a1.v, x |-> a2.v, sx |-> a3.v,
                      rest |-> a3.rest]
                ELSE bad
           [] OTHER -> bad)))

\* ------------------------------------------------------------------- Row
\* Row::arg without the 0x80 flag on the first of two bytes.
RowArgUnflagged(data, val) ==
    IF val >= 128 THEN data \o <<val \div 256, val % 256>> ELSE data \o <<val>>

\* Row::arg: one byte below 128, else (val >> 8) | 128 and the low byte.
RowArg(data, val) ==
    IF val >= 128
    THEN LET hi == val \div 256 IN
         data \o <<(IF hi >= 128 THEN hi ELSE hi + 128), val % 256>>
    ELSE data \o <<val>>

\* Row::replace_all
ReplaceAll(row) == [normal |-> TRUE, pos |-> 0, data |-> <<>>]

\* Row::span: the header, then pos = x + sx in u16.
RowSpan(row, x, sx, shift) ==
    LET d == CASE x = row.pos /\ shift = 0 -> row.data \o <<252>>
               [] x = row.pos /\ shift # 0 -> RowArg(row.data \o <<253>>, shift)
               [] x # row.pos /\ shift = 0 -> RowArg(row.data \o <<254>>, x)
               [] OTHER -> RowArg(RowArg(row.data \o <<255>>, shift), x)
    IN [row EXCEPT !.data = RowArg(d, sx), !.pos = AsU16(x + sx)]

\* The addition in Row::span that a checked build traps.
SpanOverflows(x, sx) == x + sx >= U16

\* Row::hfb: the marker for max(0xE000 + hfb, 0xF8FF), in three bytes.
RowHfb(row, hfb) ==
    LET v == Max(AsU16(HFB_BASE + hfb), HFB_TOP) IN
    [row EXCEPT !.data = row.data \o
        <<224 + (v \div 4096), 128 + ((v \div 64) % 64), 128 + (v % 64)>>]

\* Row::add_slice
AddSlice(row, text) == [row EXCEPT !.data = row.data \o text]

\* Row::new
RowNew(width, hfb) ==
    RowHfb(RowSpan([normal |-> TRUE, pos |-> 0, data |-> <<>>], 0, width, 0), hfb)

\* ------------------------------------------------------------- GlyphScan
MkGlyph(hfb, x, sx, shift, len, wid, off) ==
    [hfb |-> hfb, x |-> x, sx |-> sx, shift |-> shift, len |-> len,
     wid |-> wid, off |-> off]

\* GlyphScan::new
GlyphScanNew(p, sx, data_len) ==
    [p |-> p, sx |-> sx, data_len |-> data_len, x |-> 0, xend |-> 0,
     hfb |-> ERR_HFB]

\* The loop of GlyphScan::next, `shift` being its local.  The result is
\* [trap, g, gs]: trap is "none", "span" (get_span panicked), "index"
\* (measure indexed past the end) or "overflow" (a u16 operation that a
\* checked build traps; an unchecked build wraps and goes on).
RECURSIVE GlyphScanLoop(_, _, _)
GlyphScanLoop(gs, shift, checks) ==
    LET none == MkGlyph(ERR_HFB, gs.sx, 1, 0, 0, 0, 0) IN
    IF gs.xend = 0 THEN
        Bind(GetSpan(gs.p, gs.x), LAMBDA sp :
        CASE sp.k = "none" -> [trap |-> "none", g |-> none, gs |-> gs]
          [] sp.k = "panic" -> [trap |-> "span", g |-> none, gs |-> gs]
          [] OTHER ->
                IF checks /\ sp.x + sp.sx >= U16
                THEN [trap |-> "overflow", g |-> none, gs |-> gs]
                ELSE GlyphScanLoop(
                        [gs EXCEPT !.p = sp.rest, !.x = sp.x,
                                   !.xend = Min(gs.sx, AsU16(sp.x + sp.sx))],
                        sp.shift, checks))
    ELSE
        Bind(Measure(gs.p), LAMBDA m :
        CASE m.m = "Glyph" ->
                IF checks /\ gs.x + m.v >= U16
                THEN [trap |-> "overflow", g |-> none, gs |-> gs]
                ELSE IF gs.x < gs.xend
                THEN IF checks /\ m.v < shift
                     THEN [trap |-> "overflow", g |-> none, gs |-> gs]
                     ELSE [trap |-> "none",
                           g |-> MkGlyph(gs.hfb, gs.x,
                                    Min(AsU16(m.v - shift), gs.xend - gs.x),
                                    shift, Len(gs.p) - Len(m.rest), m.v,
                                    gs.data_len - Len(gs.p)),
                           gs |-> [gs EXCEPT !.p = m.rest,
                                             !.x = AsU16(gs.x + m.v)]]
                ELSE GlyphScanLoop([gs EXCEPT !.p = m.rest,
                                              !.x = AsU16(gs.x + m.v)],
                                   0, checks)
          [] m.m = "Attr" ->
                GlyphScanLoop([gs EXCEPT !.p = m.rest, !.hfb = m.v], shift, checks)
          [] m.m = "End" ->
                IF gs.x < gs.xend
                THEN \* self.x = self.xend; self.xend = 0; sx: self.xend - self.x
                     IF checks
                     THEN [trap |-> "overflow", g |-> none, gs |-> gs]
                     ELSE [trap |-> "none",
                           g |-> MkGlyph(gs.hfb, gs.x, AsU16(0 - gs.xend),
                                         0, 0, 0, 0),
                           gs |-> [gs EXCEPT !.x = gs.xend, !.xend = 0]]
                ELSE GlyphScanLoop([gs EXCEPT !.xend = 0], shift, checks)
          [] OTHER -> [trap |-> "index", g |-> none, gs |-> gs])

\* GlyphScan::next
GlyphScanNext(gs, checks) == GlyphScanLoop(gs, 0, checks)

\* The glyphs GlyphScan yields for a row log up to its end marker
\* (g.x >= sx), as Row::normalize and Row::difference read them.
RECURSIVE ScanGlyphs(_, _, _)
ScanGlyphs(gs, acc, checks) ==
    Bind(GlyphScanNext(gs, checks), LAMBDA r :
    IF r.trap # "none" THEN [trap |-> r.trap, glyphs |-> acc]
    ELSE IF r.g.x >= gs.sx THEN [trap |-> "none", glyphs |-> acc]
    ELSE ScanGlyphs(r.gs, Append(acc, r.g), checks))

RowGlyphs(data, sx, checks) ==
    ScanGlyphs(GlyphScanNew(data, sx, Len(data)), <<>>, checks)

\* ------------------------------------------------------- Row::normalize
\* copy_glyph_range(x0, x1, from, to): [trap, from, to].
RECURSIVE CopyGlyphRange(_, _, _, _, _)
CopyGlyphRange(x0, x1, from, to, checks) ==
    IF Len(from) = 0 THEN [trap |-> "none", from |-> from, to |-> to]
    ELSE IF checks /\ Head(from).x + Head(from).sx >= U16
    THEN [trap |-> "overflow", from |-> from, to |-> to]
    ELSE IF AsU16(Head(from).x + Head(from).sx) <= x0
    THEN CopyGlyphRange(x0, x1, Tail(from), to, checks)
    ELSE
        \* Cut off front of glyph
        Bind(IF Head(from).x < x0
             THEN [Head(from) EXCEPT
                     !.x = x0,
                     !.sx = AsU16(Head(from).sx - (x0 - Head(from).x)),
                     !.shift = IF Head(from).len # 0
                               THEN AsU16(Head(from).shift + (x0 - Head(from).x))
                               ELSE Head(from).shift]
             ELSE Head(from), LAMBDA g1 :
        \* Cut off end of glyph, putting the glyph back
        Bind(IF AsU16(g1.x + g1.sx) > x1
             THEN [g |-> [g1 EXCEPT !.sx = AsU16(x1 - g1.x)],
                   from |-> <<g1>> \o Tail(from), cut |-> TRUE]
             ELSE [g |-> g1, from |-> Tail(from), cut |-> FALSE], LAMBDA c :
        IF checks /\ (g1.x + g1.sx >= U16 \/ (c.cut /\ x1 < g1.x)
                      \/ c.g.x + c.g.sx >= U16)
        THEN [trap |-> "overflow", from |-> from, to |-> to]
        ELSE IF AsU16(c.g.x + c.g.sx) >= x1
        THEN [trap |-> "none", from |-> c.from, to |-> Append(to, c.g)]
        ELSE CopyGlyphRange(x0, x1, c.from, Append(to, c.g), checks)))

\* The merge loop of Row::normalize: [trap, glyphs2], st being
\* [scan, x, glyphs1, glyphs2].
RECURSIVE MergeLoop(_, _, _)
MergeLoop(st, sx, checks) ==
    Bind(GlyphScanNext(st.scan, checks), LAMBDA r :
    IF r.trap # "none" THEN [trap |-> r.trap, glyphs2 |-> st.glyphs2]
    ELSE IF r.g.x >= sx THEN
        \* Copy remainder of background to end of line
        IF st.x < sx
        THEN Bind(CopyGlyphRange(st.x, sx, st.glyphs1, st.glyphs2, checks),
                  LAMBDA c : [trap |-> c.trap, glyphs2 |-> c.to])
        ELSE [trap |-> "none", glyphs2 |-> st.glyphs2]
    ELSE
        \* going backwards: finish the line, swap and start again
        Bind(IF st.x > r.g.x
             THEN Bind(CopyGlyphRange(st.x, sx, st.glyphs1, st.glyphs2, checks),
                       LAMBDA c1 : [trap |-> c1.trap, x |-> 0, glyphs1 |-> c1.to,
                                    glyphs2 |-> <<>>])
             ELSE [trap |-> "none", x |-> st.x, glyphs1 |-> st.glyphs1,
                   glyphs2 |-> st.glyphs2], LAMBDA a :
        \* copy background up to the glyph
        Bind(IF a.x < r.g.x
             THEN Bind(CopyGlyphRange(a.x, r.g.x, a.glyphs1, a.glyphs2, checks),
                       LAMBDA c2 : [trap |-> c2.trap, glyphs1 |-> c2.from,
                                    glyphs2 |-> c2.to])
             ELSE [trap |-> "none", glyphs1 |-> a.glyphs1,
                   glyphs2 |-> a.glyphs2], LAMBDA b :
        IF a.trap # "none" THEN [trap |-> a.trap, glyphs2 |-> st.glyphs2]
        ELSE IF b.trap # "none" THEN [trap |-> b.trap, glyphs2 |-> st.glyphs2]
        ELSE IF checks /\ r.g.x + r.g.sx >= U16
        THEN [trap |-> "overflow", glyphs2 |-> st.glyphs2]
        ELSE MergeLoop([scan |-> r.gs, x |-> AsU16(r.g.x + r.g.sx),
                        glyphs1 |-> b.glyphs1,
                        glyphs2 |-> Append(b.glyphs2, r.g)], sx, checks))))

\* The end of the span that starts at glyph gi: after the first glyph that
\* is padded or truncated, or before the first glyph with a shift.
RECURSIVE SpanEnd(_, _, _)
SpanEnd(gvec, end, sx) ==
    IF end - 1 < Len(gvec)
       /\ AsU16(gvec[end - 1].wid + gvec[end - 1].shift) = gvec[end - 1].sx
       /\ gvec[end].shift = 0
    THEN SpanEnd(gvec, end + 1, AsU16(sx + gvec[end].sx))
    ELSE [end |-> end, sx |-> sx]

\* The glyphs gi..end-1 of one span written back: st is [row, hfb].
RECURSIVE EmitGlyphs(_, _, _, _, _)
EmitGlyphs(st, gvec, gi, end, data) ==
    IF gi >= end THEN st
    ELSE
        LET gl == gvec[gi] IN
        EmitGlyphs([row |-> AddSlice(IF gl.hfb # st.hfb THEN RowHfb(st.row, gl.hfb)
                                     ELSE st.row,
                                     SubSeq(data, gl.off + 1, gl.off + gl.len)),
                    hfb |-> gl.hfb],
                   gvec, gi + 1, end, data)

\* Convert the glyphs back to the Row representation; gi and end are
\* 1-based here.  st is [row, hfb, x, trap].
RECURSIVE Reserialise(_, _, _, _, _)
Reserialise(st, gvec, gi, data, checks) ==
    IF gi > Len(gvec) \/ st.trap # "none" THEN st
    ELSE
        Bind(SpanEnd(gvec, gi + 1, gvec[gi].sx), LAMBDA e :
        Bind(EmitGlyphs([row |-> RowSpan(st.row, st.x, e.sx, gvec[gi].shift),
                         hfb |-> st.hfb], gvec, gi, e.end, data), LAMBDA em :
        IF checks /\ SpanOverflows(st.x, e.sx)
        THEN [st EXCEPT !.trap = "overflow"]
        ELSE Reserialise([row |-> em.row, hfb |-> em.hfb,
                          x |-> AsU16(st.x + e.sx), trap |-> "none"],
                         gvec, e.end, data, checks)))

\* A normalize that rebuilds the row whatever `normal` says
RowNormalizeAlways(row, sx, checks) ==
    Bind(MergeLoop([scan |-> GlyphScanNew(row.data, sx, Len(row.data)),
                    x |-> 0,
                    glyphs1 |-> <<MkGlyph(ERR_HFB, 0, sx, 0, 0, 0, 0)>>,
                    glyphs2 |-> <<>>], sx, checks), LAMBDA m :
    IF m.trap # "none" THEN [trap |-> m.trap, row |-> row]
    ELSE Bind(Reserialise([row |-> ReplaceAll(row), hfb |-> 65535, x |-> 0,
                           trap |-> "none"],
                          m.glyphs2, 1, row.data, checks),
              LAMBDA s : [trap |-> s.trap, row |-> s.row]))

\* Row::normalize: [trap, row].  Only a row with normal = false is rebuilt.
RowNormalize(row, sx, checks) ==
    IF row.normal THEN [trap |-> "none", row |-> row]
    ELSE
        Bind(MergeLoop([scan |-> GlyphScanNew(row.data, sx, Len(row.data)),
                        x |-> 0,
                        glyphs1 |-> <<MkGlyph(ERR_HFB, 0, sx, 0, 0, 0, 0)>>,
                        glyphs2 |-> <<>>], sx, checks), LAMBDA m :
        IF m.trap # "none" THEN [trap |-> m.trap, row |-> row]
        ELSE Bind(Reserialise([row |-> ReplaceAll(row), hfb |-> 65535, x |-> 0,
                               trap |-> "none"],
                              m.glyphs2, 1, row.data, checks),
                  LAMBDA s : [trap |-> s.trap, row |-> s.row]))

\* ------------------------------------------------------- Page and Region
\* Page::new; rows are numbered from 0.
PageNew(sy, sx, hfb) ==
    LET sy1 == Max(sy, 0)
        sx1 == Max(sx, 0)
    IN [sy |-> sy1, sx |-> sx1, csx |-> MeasureRest(<<56>>),
        rows |-> [y \in 0 .. sy1 - 1 |-> RowNew(AsU16(sx1), hfb)]]

MkRegion(oy, ox, sy, sx, cy0, cx0, cy1, cx1) ==
    [oy |-> oy, ox |-> ox, sy |-> sy, sx |-> sx,
     cy0 |-> cy0, cx0 |-> cx0, cy1 |-> cy1, cx1 |-> cx1]

\* Page::full
PageFull(pg) == MkRegion(0, 0, pg.sy, pg.sx, 0, 0, pg.sy, pg.sx)

\* Page::region
PageRegion(pg, y, x, sy, sx) ==
    MkRegion(y, x, sy, sx, Max(y, 0), Max(x, 0),
             Min(y + sy, pg.sy), Min(x + sx, pg.sx))

\* Region::region
RegionRegion(r, y, x, sy, sx) ==
    LET oy == r.oy + y
        ox == r.ox + x
    IN MkRegion(oy, ox, sy, sx, Max(r.cy0, oy), Max(r.cx0, ox),
                Min(r.cy1, oy + sy), Min(r.cx1, ox + sx))

\* Page::measure
PageMeasure(text) == MeasureRest(text)

\* Region::clear: [trap, rows].  Rows cy0..cy1-1 are rewritten; the span
\* arguments are the `as u16` casts of cx0 and cx1 - cx0.
RegionClear(pg, r, hfb, checks) ==
    LET full == r.cx0 <= 0 /\ r.cx1 >= pg.sx
        x == IF full THEN 0 ELSE AsU16(r.cx0)
        sx == IF full THEN AsU16(pg.sx) ELSE AsU16(r.cx1 - r.cx0)
        hit == {y \in r.cy0 .. r.cy1 - 1 : TRUE}
    IN
    IF hit # {} /\ hit \ DOMAIN pg.rows # {}
    THEN [trap |-> "index", rows |-> pg.rows]
    ELSE IF hit # {} /\ checks /\ SpanOverflows(x, sx)
    THEN [trap |-> "overflow", rows |-> pg.rows]
    ELSE [trap |-> "none",
          rows |-> [y \in DOMAIN pg.rows |->
                      IF y \in hit
                      THEN RowHfb(RowSpan(IF full THEN ReplaceAll(pg.rows[y])
                                          ELSE pg.rows[y], x, sx, 0), hfb)
                      ELSE pg.rows[y]]]

\* Region::writeb, "Skip stuff we can't display": k is "ret" (the text
\* ended: return x), "go" (carry on with p, x, hfb) or "panic".
RECURSIVE SkipLoop(_, _, _, _)
SkipLoop(p, x, hfb, cx0) ==
    Bind(Measure(p), LAMBDA m :
    CASE m.m = "End" -> [k |-> "ret", p |-> p, x |-> x, hfb |-> hfb]
      [] m.m = "Attr" -> SkipLoop(m.rest, x, m.v, cx0)
      [] m.m = "Glyph" ->
            IF x + m.v > cx0 THEN [k |-> "go", p |-> p, x |-> x, hfb |-> hfb]
            ELSE IF x + m.v = cx0
            THEN [k |-> "go", p |-> m.rest, x |-> x + m.v, hfb |-> hfb]
            ELSE SkipLoop(m.rest, x + m.v, hfb, cx0)
      [] OTHER -> [k |-> "panic", p |-> p, x |-> x, hfb |-> hfb])

\* Region::writeb, "Write what we can display": k is "clip" (a glyph
\* reached cx1), "end" (the text ended first) or "panic"; p and x are
\* those after the last glyph measured.
RECURSIVE WriteLoop(_, _, _)
WriteLoop(p, x, cx1) ==
    Bind(Measure(p), LAMBDA m :
    CASE m.m = "Glyph" ->
            IF x + m.v >= cx1 THEN [k |-> "clip", p |-> m.rest, x |-> x + m.v]
            ELSE WriteLoop(m.rest, x + m.v, cx1)
      [] m.m = "Attr" -> WriteLoop(m.rest, x, cx1)
      [] m.m = "End" -> [k |-> "end", p |-> p, x |-> x]
      [] OTHER -> [k |-> "panic", p |-> p, x |-> x])

\* Region::writeb, "Just measure string": return x + measure_rest() - ox.
WriteMeasured(pg, r, p, x) ==
    Bind(MeasureRest(p), LAMBDA n :
    IF n < 0 THEN [trap |-> "index", rows |-> pg.rows, ret |-> 0]
    ELSE [trap |-> "none", rows |-> pg.rows, ret |-> x + n - r.ox])

\* Region::writeb from "Write what we can display" on: y and sk.x are in
\* page coordinates, sk is what the skip loop left.
WriteVisible(pg, r, y, sk, checks) ==
    Bind(WriteLoop(sk.p, sk.x, r.cx1), LAMBDA w :
    LET xs == Max(sk.x, r.cx0)
        shift == xs - sk.x
        sx == IF w.k = "clip" THEN r.cx1 - xs ELSE w.x - xs
        slice == IF w.k = "clip" THEN SliceTo(sk.p, w.p) ELSE sk.p
    IN
    IF w.k = "panic" THEN [trap |-> "index", rows |-> pg.rows, ret |-> 0]
    ELSE IF checks /\ SpanOverflows(AsU16(xs), AsU16(sx))
    THEN [trap |-> "overflow", rows |-> pg.rows, ret |-> 0]
    ELSE Bind([pg.rows EXCEPT ![y] =
                    AddSlice(RowHfb(RowSpan(pg.rows[y], AsU16(xs), AsU16(sx),
                                            AsU16(shift)), sk.hfb), slice)],
              LAMBDA rows :
         IF w.k = "clip"
         THEN Bind(MeasureRest(w.p), LAMBDA n :
              IF n < 0 THEN [trap |-> "index", rows |-> pg.rows, ret |-> 0]
              ELSE [trap |-> "none", rows |-> rows, ret |-> w.x + n - r.ox])
         ELSE [trap |-> "none", rows |-> rows, ret |-> w.x - r.ox]))

\* Region::writeb: [trap, rows, ret].
RegionWriteb(pg, r, y0, x0, hfb0, text, checks) ==
    IF y0 + r.oy < r.cy0 \/ y0 + r.oy >= r.cy1
    THEN WriteMeasured(pg, r, text, x0 + r.ox)
    ELSE
        Bind(IF x0 + r.ox < r.cx0 THEN SkipLoop(text, x0 + r.ox, hfb0, r.cx0)
             ELSE [k |-> "go", p |-> text, x |-> x0 + r.ox, hfb |-> hfb0],
             LAMBDA sk :
        IF sk.k = "panic" THEN [trap |-> "index", rows |-> pg.rows, ret |-> 0]
        ELSE IF sk.k = "ret" THEN [trap |-> "none", rows |-> pg.rows, ret |-> sk.x]
        ELSE IF sk.x >= r.cx1 THEN WriteMeasured(pg, r, sk.p, sk.x)
        ELSE IF y0 + r.oy \notin DOMAIN pg.rows
        THEN [trap |-> "index", rows |-> pg.rows, ret |-> 0]
        ELSE WriteVisible(pg, r, y0 + r.oy, sk, checks))

\* Region::write
RegionWrite(pg, r, y, x, hfb, text, checks) ==
    RegionWriteb(pg, r, y, x, hfb, text, checks)

\* Page::normalize: [trap, rows].
PageNormalize(pg, checks) ==
    Bind([y \in DOMAIN pg.rows |-> RowNormalize(pg.rows[y], AsU16(pg.sx), checks)],
         LAMBDA n :
    LET bad == {y \in DOMAIN pg.rows : n[y].trap # "none"} IN
    IF bad # {}
    THEN [trap |-> n[CHOOSE y \in bad : \A z \in bad : y <= z].trap,
          rows |-> pg.rows]
    ELSE [trap |-> "none", rows |-> [y \in DOMAIN pg.rows |-> n[y].row]])

\* ------------------------------------------------- reading a row's log
\* What a cell shows: the bytes of its glyph (a space for padding) and hfb.
GlyphCell(g, data) ==
    [ch |-> IF g.len = 0 THEN <<32>> ELSE SubSeq(data, g.off + 1, g.off + g.len),
     hfb |-> g.hfb]

Unset == [ch |-> <<>>, hfb |-> 65535]

\* The glyphs painted in the order of the log, a later glyph overwriting
\* an earlier one (the Row doc: "spans will be added which overwrite parts
\* of the line").
RECURSIVE Paint(_, _, _, _)
Paint(cells, glyphs, i, data) ==
    IF i > Len(glyphs) THEN cells
    ELSE LET g == glyphs[i] IN
         Paint([c \in DOMAIN cells |->
                    IF c >= g.x /\ c < g.x + g.sx THEN GlyphCell(g, data)
                    ELSE cells[c]],
               glyphs, i + 1, data)

\* The glyphs read strictly left to right: a glyph fills only cells that
\* no earlier glyph of the log has filled.
RECURSIVE PaintOnce(_, _, _, _)
PaintOnce(cells, glyphs, i, data) ==
    IF i > Len(glyphs) THEN cells
    ELSE LET g == glyphs[i] IN
         PaintOnce([c \in DOMAIN cells |->
                        IF c >= g.x /\ c < g.x + g.sx /\ cells[c] = Unset
                        THEN GlyphCell(g, data)
                        ELSE cells[c]],
                   glyphs, i + 1, data)

\* The rendering of a row of width sx: [trap, cells], cells numbered from 0.
Render(data, sx, checks) ==
    Bind(RowGlyphs(data, sx, checks), LAMBDA r :
    [trap |-> r.trap,
     cells |-> Paint([c \in 0 .. sx - 1 |-> Unset], r.glyphs, 1, data)])

RenderOnce(data, sx, checks) ==
    Bind(RowGlyphs(data, sx, checks), LAMBDA r :
    [trap |-> r.trap,
     cells |-> PaintOnce([c \in 0 .. sx - 1 |-> Unset], r.glyphs, 1, data)])

\* The span headers of a log, in log order: each header as get_span reads
\* it, its payload being the bytes up to the next command byte.
RECURSIVE SkipPayload(_)
SkipPayload(s) ==
    IF Len(s) = 0 \/ s[1] >= CMD_MIN THEN s ELSE SkipPayload(Drop(s, 1))

RECURSIVE SpansFrom(_, _, _)
SpansFrom(s, x, acc) ==
    Bind(GetSpan(s, x), LAMBDA sp :
    IF sp.k # "span" THEN [ok |-> sp.k = "none", spans |-> acc]
    ELSE SpansFrom(SkipPayload(sp.rest), sp.x + sp.sx,
                   Append(acc, [x |-> sp.x, sx |-> sp.sx, shift |-> sp.shift])))

RowSpans(data) == SpansFrom(data, 0, <<>>)

\* ===================================================================
\* The state
\* ===================================================================
VARIABLES
    page,             \* the Page: [sy, sx, csx, rows]
    prev,             \* the rows before the last operation
    last,             \* the last region operation, its arguments and result
    nops,             \* region operations applied so far
    overflow_checks,  \* the build traps integer overflow
    panicked,         \* "none", or how the last operation panicked
    term,             \* the Terminal actor's fields
    tout,             \* the shared TermOut: [buf, flush_to, new_cleanup, size]
    glue,             \* the OS shim: [saved, stdin_src]
    hook,             \* the installed panic hook
    fd,               \* the bytes the last operation wrote to the output FD
    env,              \* the process around the controller: the TTY's mode,
                      \* a queued handle_error_in, a panic under way
    hist,             \* what the last operation did, and what was marked,
                      \* failed and written since
    inp               \* the input side: the Terminal's inbuf, check_enable
                      \* and timers, the clock, stdin, the keys forwarded

pageVars == <<page, prev, last, nops, overflow_checks, panicked>>
termVars == <<term, tout, glue, hook, fd, env, hist, inp>>
vars == <<pageVars, termVars>>

\* ------------------------------------------------------ the page's inputs
PageHfb == 0
Hfbs == {1, 6399}
WriteHfbs == {2}
\* "", "a", "abc", and U+E001 followed by "a"
Texts == {<<>>, <<97>>, <<97, 98, 99>>, <<238, 128, 129, 97>>}

\* (y, sy): above the page, its first row, all its rows and more, below it
VSpans == {<<-1, 1>>, <<0, 1>>, <<0, MaxSy + 1>>, <<MaxSy, 1>>}
\* (x, sx): left of the page, wider than the page on both sides, inside it,
\* cut by its right edge, right of it
HSpans == {<<-2, 1>>, <<-2, MaxSx + 3>>, <<1, 1>>, <<1, MaxSx>>, <<MaxSx + 1, 1>>}
\* (y, x, sy, sx) of a sub-region, in its parent's coordinates
SubRects == {<<0, -1, 1, 2>>, <<0, 1, 1, 1>>}
WriteYs == {0, 1}
WriteXs == {-2, 0, 1}

\* The regions drawn on: the full page, the regions of the page, and their
\* sub-regions.
PageRegions(pg) ==
    {PageRegion(pg, v[1], h[1], v[2], h[2]) : v \in VSpans, h \in HSpans}

\* Sub-regions are taken of the regions that span every row.
SubRegions(pg) ==
    {RegionRegion(PageRegion(pg, 0, h[1], pg.sy, h[2]), q[1], q[2], q[3], q[4]) :
        h \in HSpans, q \in SubRects}

Regions(pg) == {PageFull(pg)} \cup PageRegions(pg) \cup SubRegions(pg)

NoOp == [op |-> "new", reg |-> MkRegion(0, 0, 0, 0, 0, 0, 0, 0), y |-> 0,
         x |-> 0, hfb |-> 0, text |-> <<>>, ret |-> 0, norm |-> FALSE]

\* Option<Vec<u8>>
None == [some |-> FALSE, v |-> <<>>]
Some(v) == [some |-> TRUE, v |-> v]

\* A panic hook: the hook the process had before Terminal::init ("prev"),
\* the standard library's ("default"), or one of the two closures of
\* update_panic_hook ("chain", "cleanup") with what it captured.
MkHook(kind, cleanup, saved, defhook) ==
    [kind |-> kind, cleanup |-> cleanup, saved |-> saved, defhook |-> defhook]

\* TermOut::new
TermOutNew == [buf |-> <<>>, flush_to |-> 0, new_cleanup |-> None, size |-> <<0, 0>>]

\* A MaxTimerKey with no timer outstanding
NoTimer == -1

\* The input side as Terminal::init leaves it: inbuf empty, check_enable
\* false, no timer; nothing read from stdin and no key forwarded yet.
\* stdin = [data, end] is what stdin holds for the read_data under way:
\* the bytes readable, then EAGAIN ("again"), an error or end-of-file;
\* cnt is what its last read returned, got whether the loop has yet to
\* look at it.
InStart ==
    [inbuf |-> <<>>, check_enable |-> FALSE, force_timer |-> NoTimer,
     check_timer |-> NoTimer, now |-> 0, keys |-> <<>>, rx |-> <<>>,
     rx_at |-> 0, op |-> "none", hung |-> FALSE,
     stdin |-> [data |-> <<>>, end |-> "again"], reading |-> FALSE,
     reads |-> 0, got |-> FALSE, cnt |-> 0]

\* The process before Terminal::init: no controller, the TTY cooked.
TermStart ==
    /\ term = [alive |-> FALSE, paused |-> FALSE, disable_output |-> FALSE,
               cleanup |-> <<>>, panic_hook |-> "none", failed |-> "none"]
    /\ tout = TermOutNew
    /\ glue = [saved |-> "none", stdin_src |-> FALSE]
    /\ hook = MkHook("prev", <<>>, "none", "none")
    /\ fd = <<>>
    /\ env = [tty |-> "cooked", pending |-> FALSE, trapped |-> FALSE,
              ended |-> FALSE]
    /\ hist = [op |-> "none", paused0 |-> FALSE, disabled0 |-> FALSE,
               alive0 |-> FALSE, cleanup0 |-> <<>>, res |-> "ok", fwd |-> <<>>,
               log |-> <<>>, mark |-> 0, expect |-> <<>>, left |-> <<>>,
               wfail |-> FALSE, late |-> <<>>]
    /\ inp = InStart

Init ==
    /\ page = PageNew(MaxSy, MaxSx, PageHfb)
    /\ prev = page.rows
    /\ last = NoOp
    /\ nops = 0
    /\ overflow_checks \in BOOLEAN
    /\ panicked = "none"
    /\ TermStart

\* An operation of the page that ended with result r = [trap, rows, ...].
PageStep(r, l) ==
    /\ prev' = page.rows
    /\ last' = l
    /\ panicked' = r.trap
    /\ page' = [page EXCEPT !.rows = r.rows]
    /\ UNCHANGED <<overflow_checks, termVars>>

\* Region::clear on region r
Clear(r, hfb) ==
    /\ panicked = "none"
    /\ nops < MaxOps
    /\ nops' = nops + 1
    /\ \E c \in {RegionClear(page, r, hfb, overflow_checks)} :
            PageStep(c, [NoOp EXCEPT !.op = "clear", !.reg = r, !.hfb = hfb])

\* Region::write on region r
Write(r, y, x, hfb, text) ==
    /\ panicked = "none"
    /\ nops < MaxOps
    /\ nops' = nops + 1
    /\ \E w \in {RegionWrite(page, r, y, x, hfb, text, overflow_checks)} :
            PageStep(w, [op |-> "write", reg |-> r, y |-> y, x |-> x, hfb |-> hfb,
                         text |-> text, ret |-> w.ret, norm |-> FALSE])

\* Page::normalize, called once after the last operation: last.norm records
\* that it was.
Normalize ==
    /\ panicked = "none"
    /\ ~last.norm
    /\ nops' = nops
    /\ \E n \in {PageNormalize(page, overflow_checks)} :
            PageStep(n, [last EXCEPT !.norm = TRUE])

Next ==
    \/ \E r \in Regions(page), hfb \in Hfbs : Clear(r, hfb)
    \/ \E r \in Regions(page), y \in WriteYs, x \in WriteXs, hfb \in WriteHfbs, t \in Texts :
            Write(r, y, x, hfb, t)
    \/ Normalize

Spec == Init /\ [][Next]_vars

\* ===================================================================
\* The page: properties
\* ===================================================================
\* Cell (y, c) of the page lies in the clip rectangle of region r.
InClip(r, y, c) == y >= r.cy0 /\ y < r.cy1 /\ c >= r.cx0 /\ c < r.cx1

\* Row y of rows as GlyphScan shows it.
Shown(rows, y) == Render(rows[y].data, page.sx, overflow_checks)

\* The span records are in left-to-right order, do not overlap, and cover
\* exactly the cells 0 .. sx - 1.
SpansTile(spans, sx) ==
    /\ \A i \in DOMAIN spans : spans[i].x + spans[i].sx <= sx
    /\ \A i, j \in DOMAIN spans :
            i < j => spans[i].x + spans[i].sx <= spans[j].x
    /\ \A c \in 0 .. sx - 1 :
            \E i \in DOMAIN spans : c >= spans[i].x /\ c < spans[i].x + spans[i].sx

IsAscii(t) == \A i \in DOMAIN t : t[i] >= 32 /\ t[i] < 127

\* C1: after any sequence of region operations followed by
\* Page::normalize(), every row has normal = true and its span records are
\* in left-to-right order, do not overlap, and cover exactly [0, sx).
C1_NormalizedRowsTile ==
    (last.norm /\ panicked = "none") =>
        \A y \in DOMAIN page.rows :
            /\ page.rows[y].normal
            /\ RowSpans(page.rows[y].data).ok
            /\ SpansTile(RowSpans(page.rows[y].data).spans, page.sx)

\* C2: after Page::normalize(), reading a row's records strictly left to
\* right, no span overwriting another, gives every cell the (character,
\* hfb) that painting the pre-normalise log in append order gives it.
\* Stated of the build without overflow checks, where a row can be read.
C2_NormalizedReadsAsPainted ==
    (last.norm /\ panicked = "none" /\ ~overflow_checks) =>
        \A y \in DOMAIN page.rows :
            Render(prev[y].data, page.sx, FALSE).trap = "none" =>
                /\ RenderOnce(page.rows[y].data, page.sx, FALSE).trap = "none"
                /\ RenderOnce(page.rows[y].data, page.sx, FALSE).cells
                        = Render(prev[y].data, page.sx, FALSE).cells

\* C3: Region::clear and Region::write on any region never change what a
\* cell outside the region's clip shows (character and hfb); a region
\* whose clip is empty changes no cell.  Stated of the build without
\* overflow checks, where a row can be read.
C3_OutsideClipUnchanged ==
    (last.op \in {"clear", "write"} /\ ~last.norm /\ panicked = "none"
        /\ ~overflow_checks) =>
        \A y \in DOMAIN page.rows :
            Shown(prev, y).trap = "none" =>
                /\ Shown(page.rows, y).trap = "none"
                /\ \A c \in 0 .. page.sx - 1 :
                        ~InClip(last.reg, y, c) =>
                            Shown(page.rows, y).cells[c] = Shown(prev, y).cells[c]

\* C4: Region::write(y, x, hfb, text) returns x + measure(text) in the
\* region's own coordinates, wherever the text lies relative to the clip.
C4_WriteReturnsEnd ==
    (last.op = "write" /\ ~last.norm /\ panicked = "none") =>
        last.ret = last.x + PageMeasure(last.text)

\* C5: writing ASCII text t at (y, x) with [x, x + |t|) wholly inside the
\* region's clip makes the rendered row show the characters of t in order
\* in those cells, and leaves the character of every other cell of the
\* page as it was.  Stated of the build without overflow checks.
C5_WriteShowsText ==
    (/\ last.op = "write" /\ ~last.norm /\ panicked = "none" /\ ~overflow_checks
     /\ last.text # <<>> /\ IsAscii(last.text)
     /\ InClip(last.reg, last.y + last.reg.oy, last.x + last.reg.ox)
     /\ last.x + last.reg.ox + Len(last.text) <= last.reg.cx1) =>
        LET wy == last.y + last.reg.oy
            wx == last.x + last.reg.ox
        IN
        \A y \in DOMAIN page.rows :
            /\ Shown(page.rows, y).trap = "none"
            /\ \A c \in 0 .. page.sx - 1 :
                    IF y = wy /\ c >= wx /\ c < wx + Len(last.text)
                    THEN Shown(page.rows, y).cells[c].ch = <<last.text[c - wx + 1]>>
                    ELSE Shown(prev, y).trap = "none"
                            => Shown(page.rows, y).cells[c].ch = Shown(prev, y).cells[c].ch

\* C6: Region::clear(c) followed by Page::normalize() leaves every cell of
\* the region's clip a space whose attribute, decoded from the row's log,
\* is exactly c.  Stated of the build without overflow checks.
C6_ClearShowsHfb ==
    (last.op = "clear" /\ last.norm /\ panicked = "none" /\ ~overflow_checks) =>
        \A y \in DOMAIN page.rows :
            \A c \in 0 .. page.sx - 1 :
                InClip(last.reg, y, c) =>
                    /\ Shown(page.rows, y).trap = "none"
                    /\ Shown(page.rows, y).cells[c] = [ch |-> <<32>>, hfb |-> last.hfb]

\* ===================================================================
\* The controller: Terminal, TermOut and the OS glue
\* ===================================================================
\* The operations below work on w = [term, tout, glue, hook, fd, env, hist],
\* the controller's part of the state, so that one handler can call another.
ESC_C == <<27, 99>>
BEL == 7
TtySize == <<24, 80>>

\* What the environment decides.  A write writes every byte (-1) or fails
\* once n bytes are out; an empty write makes no system call.
WriteOutcomes == {-1, 0, 1}
RawOutcomes == {"ok", "notty", "setfail", "addfail"}
RestoreOutcomes == {"ok", "fail"}
SizeOutcomes == {"ok", "fail"}
OutBytes == {97}

\* Glue::write_aux: the bytes that reach the FD, and whether it returns Ok.
WriteLen(data, n) == IF n < 0 \/ n >= Len(data) THEN Len(data) ELSE n
WriteOk(data, n) == n < 0 \/ n >= Len(data)

\* Glue::write / write_aux on w.  fd collects the bytes of the current
\* operation, hist.late those written after a failed write.
GlueWrite(w, data, n) ==
    [w EXCEPT !.fd = @ \o Take(data, WriteLen(data, n)),
              !.hist.late = IF w.hist.wfail
                            THEN @ \o Take(data, WriteLen(data, n)) ELSE @]

\* Glue::termios_set_raw, with the OS's answer in raw; glue.saved is
\* "cooked" once the TTY's mode has been saved.
TermiosSetRaw(w, raw) ==
    IF w.glue.saved # "none" THEN w
    ELSE IF raw = "notty" THEN [w EXCEPT !.env.pending = TRUE]
    ELSE IF raw = "setfail"
    THEN [w EXCEPT !.glue.saved = "cooked", !.env.pending = TRUE]
    ELSE [w EXCEPT !.glue.saved = "cooked", !.env.tty = "raw"]

TermiosSetRawOk(w, raw) == w.glue.saved = "none" /\ raw \in {"ok", "addfail"}

\* Glue::termios_restore
TermiosRestore(w, ro) ==
    IF w.glue.saved = "none" THEN w
    ELSE IF ro = "ok" THEN [w EXCEPT !.glue.saved = "none", !.env.tty = "cooked"]
    ELSE [w EXCEPT !.glue.saved = "none", !.env.pending = TRUE]

\* Glue::input
GlueInput(w, enable, raw, ro) ==
    IF enable
    THEN IF ~w.glue.stdin_src /\ TermiosSetRawOk(w, raw)
         THEN IF raw = "addfail"
              THEN [TermiosSetRaw(w, raw) EXCEPT !.env.pending = TRUE]
              ELSE [TermiosSetRaw(w, raw) EXCEPT !.glue.stdin_src = TRUE]
         ELSE IF ~w.glue.stdin_src THEN TermiosSetRaw(w, raw) ELSE w
    ELSE TermiosRestore([w EXCEPT !.glue.stdin_src = FALSE], ro)

\* One thing a panic hook or a cleanup closure did: "write" of bytes,
\* "restore" of the termios what (none saved: "none"), "hook" what called.
HookDid(ev, bytes, what) == [ev |-> ev, bytes |-> bytes, what |-> what]

\* Glue::cleanup_fn, the closure applied to reset: it captured saved.
CleanupFn(w, saved, reset, n) ==
    Bind(GlueWrite(w, reset, n), LAMBDA w1 :
    [w1 EXCEPT !.env.tty = IF saved # "none" THEN "cooked" ELSE @,
               !.hist.log = @ \o <<HookDid("write", reset, ""),
                                   HookDid("restore", <<>>, saved)>>])

\* TermOut::flush (hist.mark: how many bytes at the front of buf were in
\* it at the most recent TermOut::flush)
TermOutFlush(w) ==
    [w EXCEPT !.tout.flush_to = Len(w.tout.buf), !.hist.mark = Len(w.tout.buf)]

\* TermOut::bytes
TermOutBytes(w, data) == [w EXCEPT !.tout.buf = @ \o data]

\* TermOut::save_cleanup copying the buffer to the slot without draining it.
TermOutSaveCleanupKeep(w) == [w EXCEPT !.tout.new_cleanup = Some(w.tout.buf)]

\* TermOut::save_cleanup
TermOutSaveCleanup(w) ==
    [w EXCEPT !.tout.new_cleanup = Some(w.tout.buf), !.tout.buf = <<>>,
              !.hist.mark = 0]

\* TermOut::data_to_flush, for flush_to <= buf.len()
DataToFlush(t) == Take(t.buf, t.flush_to)

\* TermOut::drain_flush, for flush_to <= buf.len()
DrainFlush(w) ==
    [w EXCEPT !.tout.buf = Drop(@, w.tout.flush_to), !.tout.flush_to = 0,
              !.hist.mark = Max(@ - w.tout.flush_to, 0)]

\* TermOut::discard
Discard(w) ==
    [w EXCEPT !.tout.buf = <<>>, !.tout.flush_to = 0, !.hist.mark = 0]

\* TermOut::set_size
SetSize(w, size) == [w EXCEPT !.tout.size = size]

\* update_panic_hook installing the cleanup closure whatever `paused` is.
UpdatePanicHookCleanupOnly(w) ==
    [w EXCEPT !.hook = MkHook("cleanup", w.term.cleanup, w.glue.saved,
                              w.term.panic_hook)]

\* update_panic_hook capturing again what the old hook held as cleanup.
UpdatePanicHookOldCleanup(w) ==
    [w EXCEPT !.hook =
        IF w.term.paused
        THEN MkHook("chain", <<>>, "none", w.term.panic_hook)
        ELSE MkHook("cleanup", w.hook.cleanup, w.glue.saved, w.term.panic_hook)]

\* Terminal::update_panic_hook
UpdatePanicHook(w) ==
    [w EXCEPT !.hook =
        IF w.term.paused
        THEN MkHook("chain", <<>>, "none", w.term.panic_hook)
        ELSE MkHook("cleanup", w.term.cleanup, w.glue.saved, w.term.panic_hook)]

\* cx.fail(e): the first failure is the one the actor dies of.
Fail(w, e) == [w EXCEPT !.term.failed = IF @ = "none" THEN e ELSE @]

\* Terminal::failure without its call of pause.
FailureNoPause(w, e, ro) == Fail(w, e)

RECURSIVE TerminalFlush(_, _, _)
RECURSIVE TerminalPause(_, _)

\* Terminal::failure
Failure(w, e, ro) == Fail(TerminalPause(w, ro), e)

\* Terminal::flush; n is what the write does, ro what a restore of the
\* TTY's mode does should the flush end in pause.  res = "trap" is the
\* panic of a slice or drain beyond the buffer's end.
TerminalFlush(w, n, ro) ==
    Bind(IF w.tout.new_cleanup.some
         THEN UpdatePanicHook([w EXCEPT !.term.cleanup = w.tout.new_cleanup.v,
                                        !.tout.new_cleanup = None])
         ELSE w,
         LAMBDA w1 :
    IF w1.term.disable_output THEN w1
    ELSE IF w1.tout.flush_to > Len(w1.tout.buf)
    THEN [w1 EXCEPT !.hist.res = "trap", !.env.trapped = TRUE]
    ELSE IF w1.term.paused THEN DrainFlush(w1)
    ELSE Bind(DrainFlush(GlueWrite(w1, DataToFlush(w1.tout), n)), LAMBDA w2 :
         IF WriteOk(DataToFlush(w1.tout), n) THEN w2
         ELSE Failure([w2 EXCEPT !.term.disable_output = TRUE,
                                 !.hist.wfail = TRUE, !.hist.res = "err"],
                      "write", ro)))

\* Terminal::pause
TerminalPause(w, ro) ==
    IF w.term.paused THEN w
    ELSE Bind(TermOutBytes(Discard(GlueInput(
                  [w EXCEPT !.hist.fwd = Append(@, "None")], FALSE, "ok", ro)),
                  w.term.cleanup),
              LAMBDA w1 :
         Bind(TerminalFlush(w1, -1, ro), LAMBDA w2 :
         UpdatePanicHook([w2 EXCEPT !.term.paused = TRUE])))

\* Terminal::bell keeping quiet while paused.
TerminalBellUnlessPaused(w, n, ro) ==
    IF w.term.disable_output \/ w.term.paused THEN w
    ELSE Bind(GlueWrite(w, <<BEL>>, n), LAMBDA w1 :
         IF WriteOk(<<BEL>>, n) THEN w1
         ELSE Failure([w1 EXCEPT !.term.disable_output = TRUE,
                                 !.hist.wfail = TRUE, !.hist.res = "err"],
                      "write", ro))

\* Terminal::bell
TerminalBell(w, n, ro) ==
    IF w.term.disable_output THEN w
    ELSE Bind(GlueWrite(w, <<BEL>>, n), LAMBDA w1 :
         IF WriteOk(<<BEL>>, n) THEN w1
         ELSE Failure([w1 EXCEPT !.term.disable_output = TRUE,
                                 !.hist.wfail = TRUE, !.hist.res = "err"],
                      "write", ro))

\* Terminal::handle_resize; so is what Glue::get_size answers.
HandleResize(w, so, ro) ==
    IF so = "ok"
    THEN [SetSize(w, TtySize) EXCEPT !.hist.fwd = Append(@, "Some")]
    ELSE Failure(w, "size", ro)

\* Terminal::resume without its discard of the buffer.
TerminalResumeNoDiscard(w, raw, so, ro) ==
    IF ~w.term.paused THEN w
    ELSE Bind(GlueInput([w EXCEPT !.term.paused = FALSE], TRUE, raw, ro),
              LAMBDA w1 :
         Bind(HandleResize(w1, so, ro), LAMBDA w2 : UpdatePanicHook(w2)))

\* Terminal::resume
TerminalResume(w, raw, so, ro) ==
    IF ~w.term.paused THEN w
    ELSE Bind(Discard(GlueInput([w EXCEPT !.term.paused = FALSE], TRUE, raw, ro)),
              LAMBDA w1 :
         Bind(HandleResize(w1, so, ro), LAMBDA w2 : UpdatePanicHook(w2)))

\* Terminal::handle_error_in
HandleErrorIn(w, ro) == Failure([w EXCEPT !.env.pending = FALSE], "input", ro)

\* Terminal::init, after Glue::new has returned Ok
TerminalInit(w, raw, so, ro) ==
    Bind(GlueInput(w, TRUE, raw, ro), LAMBDA w0 :
    Bind([w0 EXCEPT !.tout = TermOutNew,
                    !.term = [alive |-> TRUE, paused |-> FALSE,
                              disable_output |-> FALSE, cleanup |-> ESC_C,
                              panic_hook |-> w0.hook.kind, failed |-> "none"],
                    !.hook = MkHook("default", <<>>, "none", "none")],
         LAMBDA w1 :
    Bind(HandleResize(w1, so, ro), LAMBDA w2 : UpdatePanicHook(w2))))

\* <Terminal as Drop>::drop
TerminalDrop(w, n) ==
    Bind([w EXCEPT !.hook = MkHook("default", <<>>, "none", "none"),
                   !.term.alive = FALSE],
         LAMBDA w1 :
    IF w1.term.paused THEN w1
    ELSE CleanupFn(w1, w1.glue.saved, w1.term.cleanup, n))

\* The installed panic hook, run by a panic.
RunHook(w, n) ==
    Bind(IF w.hook.kind = "cleanup"
         THEN CleanupFn(w, w.hook.saved, w.hook.cleanup, n)
         ELSE w,
         LAMBDA w1 :
    [w1 EXCEPT !.hist.log =
                  Append(@, HookDid("hook", <<>>,
                                    IF w.hook.kind \in {"cleanup", "chain"}
                                    THEN w.hook.defhook ELSE w.hook.kind)),
               !.env.ended = TRUE])

\* ------------------------------------------------ the controller's steps
World ==
    [term |-> term, tout |-> tout, glue |-> glue, hook |-> hook, fd |-> fd,
     env |-> env, hist |-> hist]

\* The state after an operation that left w.
Apply(w) ==
    /\ term' = w.term
    /\ tout' = w.tout
    /\ glue' = w.glue
    /\ hook' = w.hook
    /\ fd' = w.fd
    /\ env' = w.env
    /\ hist' = w.hist
    /\ UNCHANGED <<pageVars, inp>>

\* The start of operation op: what it finds.
Begin(op) ==
    [World EXCEPT !.fd = <<>>,
                  !.hist.op = op,
                  !.hist.paused0 = term.paused,
                  !.hist.disabled0 = term.disable_output,
                  !.hist.alive0 = term.alive,
                  !.hist.cleanup0 = term.cleanup,
                  !.hist.res = "ok",
                  !.hist.fwd = <<>>,
                  !.hist.log = <<>>,
                  !.hist.expect = <<>>,
                  !.hist.left = <<>>]

\* The start of Terminal::flush: also what it should write and leave,
\* going by the most recent TermOut::flush.
BeginFlush ==
    [Begin("flush") EXCEPT !.hist.expect = Take(tout.buf, hist.mark),
                           !.hist.left = Drop(tout.buf, hist.mark)]

\* The process runs: no panic is under way.
Running == ~env.trapped /\ ~env.ended

\* The actor takes calls: it is constructed and has not failed.
Deliverable ==
    /\ Running
    /\ term.alive
    /\ term.failed = "none"

\* Terminal::init
CallInit(raw, so, ro) ==
    /\ Running
    /\ term.panic_hook = "none"
    /\ Apply(TerminalInit(Begin("init"), raw, so, ro))

\* The application appends a byte to the buffer (TermOut::byt).
CallOut(b) ==
    /\ Deliverable
    /\ Len(tout.buf) < MaxBuf
    /\ Apply(TermOutBytes(Begin("out"), <<b>>))

\* TermOut::flush
CallTermOutFlush ==
    /\ Deliverable
    /\ tout.flush_to # Len(tout.buf)
    /\ Apply(TermOutFlush(Begin("mark")))

\* TermOut::save_cleanup
CallSaveCleanup ==
    /\ Deliverable
    /\ ~tout.new_cleanup.some
    /\ Apply(TermOutSaveCleanup(Begin("save_cleanup")))

\* Terminal::flush
CallFlush(n, ro) ==
    /\ Deliverable
    /\ Apply(TerminalFlush(BeginFlush, n, ro))

\* Terminal::bell
CallBell(n, ro) ==
    /\ Deliverable
    /\ Apply(TerminalBell(Begin("bell"), n, ro))

\* Terminal::pause
CallPause(ro) ==
    /\ Deliverable
    /\ Apply(TerminalPause(Begin("pause"), ro))

\* Terminal::resume
CallResume(raw, so, ro) ==
    /\ Deliverable
    /\ Apply(TerminalResume(Begin("resume"), raw, so, ro))

\* Terminal::handle_resize, on SIGWINCH
CallHandleResize(so, ro) ==
    /\ Deliverable
    /\ Apply(HandleResize(Begin("handle_resize"), so, ro))

\* Terminal::handle_error_in: a queued error, or a failed read of stdin
CallHandleErrorIn(ro) ==
    /\ Deliverable
    /\ env.pending \/ glue.stdin_src
    /\ Apply(HandleErrorIn(Begin("handle_error_in"), ro))

\* The actor is dropped.
CallDrop(n) ==
    /\ Running
    /\ term.alive
    /\ Apply(TerminalDrop(Begin("drop"), n))

\* The process panics (in an operation that trapped, or anywhere else) and
\* the installed hook runs.
Panic(n) ==
    /\ ~env.ended
    /\ Apply(RunHook(Begin("panic"), n))

InitTerm ==
    /\ page = PageNew(MaxSy, MaxSx, PageHfb)
    /\ prev = page.rows
    /\ last = NoOp
    /\ nops = 0
    /\ overflow_checks = FALSE
    /\ panicked = "none"
    /\ TermStart

NextTerm ==
    \/ \E raw \in RawOutcomes, so \in SizeOutcomes, ro \in RestoreOutcomes :
            CallInit(raw, so, ro)
    \/ \E b \in OutBytes : CallOut(b)
    \/ CallTermOutFlush
    \/ CallSaveCleanup
    \/ \E n \in WriteOutcomes, ro \in RestoreOutcomes : CallFlush(n, ro)
    \/ \E n \in WriteOutcomes, ro \in RestoreOutcomes : CallBell(n, ro)
    \/ \E ro \in RestoreOutcomes : CallPause(ro)
    \/ \E raw \in RawOutcomes, so \in SizeOutcomes, ro \in RestoreOutcomes :
            CallResume(raw, so, ro)
    \/ \E so \in SizeOutcomes, ro \in RestoreOutcomes : CallHandleResize(so, ro)
    \/ \E ro \in RestoreOutcomes : CallHandleErrorIn(ro)
    \/ \E n \in WriteOutcomes : CallDrop(n)
    \/ \E n \in WriteOutcomes : Panic(n)

SpecTerm == InitTerm /\ [][NextTerm]_vars

\* ===================================================================
\* The controller: properties
\* ===================================================================
\* C7: Terminal::pause on a controller that is not paused and whose output
\* is not disabled writes the controller's cleanup string (the one it held
\* at the call, or the one the call's flush adopted) to the output FD
\* during that call.
C7_PauseWritesCleanup ==
    (hist.op = "pause" /\ ~hist.paused0 /\ ~hist.disabled0) =>
        fd \in {hist.cleanup0, term.cleanup}

\* C8: a Terminal::flush of a controller that is not paused and whose
\* output is not disabled, its write succeeding, writes exactly the bytes
\* that were in the buffer at the most recent TermOut::flush() and are not
\* yet written, and leaves the bytes appended since in the buffer.
C8_FlushWritesMarked ==
    (hist.op = "flush" /\ ~hist.paused0 /\ ~hist.disabled0 /\ hist.res = "ok") =>
        /\ fd = hist.expect
        /\ tout.buf = hist.left

\* C9: whenever the process panics between the controller's init and its
\* drop, the installed hook calls the hook installed before init exactly
\* once, and before that writes the current cleanup string and restores the
\* termios the glue holds saved (none is held when the TTY could not be
\* read at init or resume) if and only if the controller is not paused.
C9_PanicHookChains ==
    (hist.op = "panic" /\ hist.alive0) =>
        hist.log = IF hist.paused0
                   THEN <<HookDid("hook", <<>>, "prev")>>
                   ELSE <<HookDid("write", term.cleanup, ""),
                          HookDid("restore", <<>>, glue.saved),
                          HookDid("hook", <<>>, "prev")>>

\* C9 happens: a panic while the controller runs unpaused with a cleanup
\* string it adopted from save_cleanup and a saved termios.
C9_Witness ==
    /\ hist.op = "panic"
    /\ hist.alive0
    /\ ~hist.paused0
    /\ term.cleanup \notin {ESC_C, <<>>}
    /\ glue.saved = "cooked"
    /\ Len(hist.log) = 3

\* C10: once a write to the output FD has failed in Terminal::flush or
\* Terminal::bell, output is disabled, that error is the actor's failure,
\* and no operation after it (flush, bell, pause, drop) writes a byte.
C10_NoOutputAfterWriteFailure ==
    hist.wfail =>
        /\ term.disable_output
        /\ term.failed = "write"
        /\ hist.late = <<>>

\* C10 happens: a write failed and the controller has since been dropped.
C10_Witness ==
    /\ hist.wfail
    /\ hist.op = "drop"
    /\ ~term.alive
    /\ term.cleanup # <<>>

\* ------------------------------------------------------ Row::difference
\* Glyph::equal
GlyphEqual(a, adata, b, bdata) ==
    /\ a.hfb = b.hfb
    /\ a.x = b.x
    /\ a.sx = b.sx
    /\ a.shift = b.shift
    /\ a.len = b.len
    /\ a.wid = b.wid
    /\ SubSeq(adata, a.off + 1, a.off + a.len)
         = SubSeq(bdata, b.off + 1, b.off + b.len)

\* The while loop of Row::difference: s0, s1 are the two scanners, g0, g1
\* the glyphs last read from them, cbs the glyphs handed to the callback
\* so far.  The result is [trap, cbs].
RECURSIVE DifferenceLoop(_, _, _, _, _, _, _, _, _)
DifferenceLoop(odata, ndata, sx, s0, s1, g0, g1, cbs, checks) ==
    IF ~(g0.x < sx \/ g1.x < sx) THEN [trap |-> "none", cbs |-> cbs]
    ELSE IF g0.x < g1.x THEN
        Bind(GlyphScanNext(s0, checks), LAMBDA r0 :
        IF r0.trap # "none" THEN [trap |-> r0.trap, cbs |-> cbs]
        ELSE DifferenceLoop(odata, ndata, sx, r0.gs, s1, r0.g, g1, cbs, checks))
    ELSE IF GlyphEqual(g0, odata, g1, ndata) THEN
        Bind(GlyphScanNext(s0, checks), LAMBDA r0 :
        Bind(GlyphScanNext(s1, checks), LAMBDA r1 :
        IF r0.trap # "none" THEN [trap |-> r0.trap, cbs |-> cbs]
        ELSE IF r1.trap # "none" THEN [trap |-> r1.trap, cbs |-> cbs]
        ELSE DifferenceLoop(odata, ndata, sx, r0.gs, r1.gs, r0.g, r1.g, cbs,
                            checks)))
    ELSE
        Bind(GlyphScanNext(s1, checks), LAMBDA r1 :
        IF r1.trap # "none" THEN [trap |-> r1.trap, cbs |-> Append(cbs, g1)]
        ELSE DifferenceLoop(odata, ndata, sx, s0, r1.gs, g0, r1.g,
                            Append(cbs, g1), checks))

\* Row::difference(self = old, new, sx, cb): [trap, cbs].
RowDifference(old, new, sx, checks) ==
    IF old.data = new.data THEN [trap |-> "none", cbs |-> <<>>]
    ELSE
        Bind(GlyphScanNext(GlyphScanNew(old.data, sx, Len(old.data)), checks),
             LAMBDA r0 :
        Bind(GlyphScanNext(GlyphScanNew(new.data, sx, Len(new.data)), checks),
             LAMBDA r1 :
        IF r0.trap # "none" THEN [trap |-> r0.trap, cbs |-> <<>>]
        ELSE IF r1.trap # "none" THEN [trap |-> r1.trap, cbs |-> <<>>]
        ELSE DifferenceLoop(old.data, new.data, sx, r0.gs, r1.gs, r0.g, r1.g,
                            <<>>, checks)))

\* C12: for two rows of the page that have been through normalize, with
\* the first taken as old and the second as new, a Row::difference that
\* runs to its end has called the callback zero times exactly when the
\* two rows hold the same bytes.
C12_DifferenceSilentIffEqual ==
    (last.norm /\ panicked = "none" /\ ~overflow_checks) =>
        \A y0, y1 \in DOMAIN page.rows :
            Bind(RowDifference(page.rows[y0], page.rows[y1], page.sx, FALSE),
                 LAMBDA d :
                d.trap = "none" =>
                    ((Len(d.cbs) = 0)
                        <=> (page.rows[y0].data = page.rows[y1].data)))

\* ===================================================================
\* Text operations: Page::measure, Region::write and Region::field on
\* UTF-8 text
\* ===================================================================
MaxCp == 3

\* The UTF-8 encoding a `&str` holds for codepoint c
Utf8(c) ==
    IF c < 128 THEN <<c>>
    ELSE IF c < 2048 THEN <<192 + (c \div 64), 128 + (c % 64)>>
    ELSE IF c < 65536
    THEN <<224 + (c \div 4096), 128 + ((c \div 64) % 64), 128 + (c % 64)>>
    ELSE <<240 + (c \div 262144), 128 + ((c \div 4096) % 64),
           128 + ((c \div 64) % 64), 128 + (c % 64)>>

RECURSIVE Utf8Text(_)
Utf8Text(cps) ==
    IF Len(cps) = 0 THEN <<>> ELSE Utf8(Head(cps)) \o Utf8Text(Tail(cps))

\* 'a', e-acute, the euro sign, the marker U+E001 and an emoji: one
\* codepoint of each encoded length, and a private-use one.
CodePoints == {97, 233, 8364, 57345, 128512}
FieldCodePoints == {97, 233, 57345}
CpTexts(cs) == UNION {[1 .. n -> cs] : n \in 0 .. MaxCp}

\* The byte offsets at which a codepoint of cps starts, and the end
CharStarts(cps) == {Len(Utf8Text(Take(cps, k))) : k \in 0 .. Len(cps)}

\* Option<(i32, i32)>
NoCurs == [some |-> FALSE, y |-> 0, x |-> 0]
Curs(y, x) == [some |-> TRUE, y |-> y, x |-> x]

\* The skip loop of Region::field for shift > 0: [trap, p, hfb].
RECURSIVE FieldShift(_, _, _)
FieldShift(p, shift, hfb) ==
    Bind(Measure(p), LAMBDA m :
    CASE m.m = "End" -> [trap |-> "none", p |-> p, hfb |-> hfb]
      [] m.m = "Attr" -> FieldShift(m.rest, shift, m.v)
      [] m.m = "Glyph" ->
            IF shift - m.v < 0 THEN [trap |-> "none", p |-> p, hfb |-> hfb]
            ELSE IF shift - m.v <= 0
            THEN [trap |-> "none", p |-> m.rest, hfb |-> hfb]
            ELSE FieldShift(m.rest, shift - m.v, hfb)
      [] OTHER -> [trap |-> "index", p |-> p, hfb |-> hfb])

\* The look-ahead of Region::field on its last line: the final scan_x, or
\* -1 if measure panics.
RECURSIVE FieldScan(_, _, _)
FieldScan(scan_p, scan_x, sx) ==
    IF ~(scan_x < sx) THEN scan_x
    ELSE Bind(Measure(scan_p), LAMBDA m :
         CASE m.m = "Glyph" -> FieldScan(m.rest, scan_x + m.v, sx)
           [] m.m = "Attr" -> FieldScan(m.rest, scan_x, sx)
           [] m.m = "End" -> scan_x
           [] OTHER -> -1)

\* The inner loop of Region::field for one line.  st holds the locals
\* [p, x, y, hfb, curs, before_curs, sx, overflow] with the page rows and
\* the trap; start and x0 are the locals of those names.
RECURSIVE FieldLine(_, _, _, _, _, _, _, _)
FieldLine(pg, r, st, start, x0, curs_len, bg_hfb, checks) ==
    Bind(Measure(st.p), LAMBDA m :
    CASE m.m = "End" -> st
      [] m.m = "Attr" ->
            FieldLine(pg, r, [st EXCEPT !.p = m.rest, !.hfb = m.v],
                      start, x0, curs_len, bg_hfb, checks)
      [] m.m = "Glyph" ->
            IF st.x + m.v > st.sx THEN
                Bind(RegionWriteb([pg EXCEPT !.rows = st.rows], r, st.y, x0,
                                  st.hfb, SliceTo(start, st.p), checks),
                     LAMBDA w :
                IF w.trap # "none"
                THEN [st EXCEPT !.trap = w.trap, !.rows = w.rows]
                ELSE
                    Bind(IF Len(st.p) = curs_len /\ w.ret < st.sx
                         THEN Curs(st.y, w.ret) ELSE st.curs,
                         LAMBDA curs :
                    IF w.ret < st.sx THEN
                        Bind(RegionClear([pg EXCEPT !.rows = w.rows],
                                RegionRegion(r, st.y, w.ret, 1, st.sx - w.ret),
                                bg_hfb, checks),
                             LAMBDA c :
                        [st EXCEPT !.x = w.ret, !.curs = curs,
                                   !.rows = c.rows, !.trap = c.trap])
                    ELSE [st EXCEPT !.x = w.ret, !.curs = curs,
                                    !.rows = w.rows]))
            ELSE
                Bind(st.before_curs /\ Len(m.rest) < curs_len, LAMBDA hit :
                FieldLine(pg, r,
                    [st EXCEPT !.p = m.rest,
                               !.before_curs = IF hit THEN FALSE ELSE @,
                               !.curs = IF hit THEN Curs(st.y, st.x) ELSE @,
                               !.x = st.x + m.v],
                    start, x0, curs_len, bg_hfb, checks))
      [] OTHER -> [st EXCEPT !.trap = "index"])

\* The overflow test Region::field makes before its last line
FieldOverflow(r, st) ==
    IF st.y = r.sy - 1 THEN
        Bind(FieldScan(st.p, st.x, st.sx), LAMBDA scan_x :
        IF scan_x < 0 THEN [st EXCEPT !.trap = "index"]
        ELSE IF scan_x >= st.sx
        THEN [st EXCEPT !.overflow = TRUE,
                        !.sx = st.sx - MeasureRest(<<62>>)]
        ELSE [st EXCEPT !.overflow = FALSE])
    ELSE st

\* The line loop of Region::field: `while y < sy`
RECURSIVE FieldLines(_, _, _, _, _, _)
FieldLines(pg, r, st, curs_len, bg_hfb, checks) ==
    IF st.trap # "none" \/ ~(st.y < r.sy) THEN st
    ELSE
        Bind(FieldOverflow(r, st), LAMBDA st1 :
        IF st1.trap # "none" THEN st1
        ELSE
            Bind(FieldLine(pg, r, st1, st1.p, st1.x, curs_len, bg_hfb, checks),
                 LAMBDA st2 :
            IF st2.trap # "none" THEN st2
            ELSE FieldLines(pg, r, [st2 EXCEPT !.x = 0, !.y = st2.y + 1],
                            curs_len, bg_hfb, checks)))

\* Region::field: [trap, rows, ret, overflow], ret being the Option it
\* returns and overflow its local of that name.
RegionField(pg, r, shift, cursor, hfb, bg_hfb, ov_hfb, text, checks) ==
    Bind(Max(Len(text) - cursor, 0), LAMBDA curs_len :
    Bind(IF shift > 0
         THEN RegionWriteb(pg, r, 0, 0, ov_hfb, <<60>>, checks)
         ELSE [trap |-> "none", rows |-> pg.rows, ret |-> 0],
         LAMBDA lt :
    Bind(IF shift > 0 THEN FieldShift(text, shift, hfb)
         ELSE [trap |-> "none", p |-> text, hfb |-> hfb],
         LAMBDA sh :
    IF lt.trap # "none"
    THEN [trap |-> lt.trap, rows |-> lt.rows, ret |-> NoCurs, overflow |-> FALSE]
    ELSE IF sh.trap # "none"
    THEN [trap |-> sh.trap, rows |-> lt.rows, ret |-> NoCurs, overflow |-> FALSE]
    ELSE
        Bind(FieldLines(pg, r,
                [p |-> sh.p, x |-> lt.ret, y |-> 0, hfb |-> sh.hfb,
                 curs |-> NoCurs, before_curs |-> Len(sh.p) >= curs_len,
                 sx |-> r.sx, overflow |-> FALSE, rows |-> lt.rows,
                 trap |-> "none"],
                curs_len, bg_hfb, checks),
             LAMBDA st :
        IF st.trap # "none"
        THEN [trap |-> st.trap, rows |-> st.rows, ret |-> NoCurs,
              overflow |-> st.overflow]
        ELSE IF st.overflow THEN
            Bind(RegionWriteb([pg EXCEPT !.rows = st.rows], r, st.y, st.sx,
                              ov_hfb, <<62>>, checks),
                 LAMBDA gt :
            [trap |-> gt.trap, rows |-> gt.rows, ret |-> st.curs,
             overflow |-> TRUE])
        ELSE [trap |-> "none", rows |-> st.rows, ret |-> st.curs,
              overflow |-> FALSE]))))

\* ---------------------------------------------------- text operations
\* The regions field and write are called on: <<y, x, sy, sx>> of
\* Page::region, the last one reaching past the right edge of the page.
FieldRects == {<<0, 0, 1, 2>>, <<0, 1, 2, 2>>, <<0, 0, 2, 1>>,
               <<0, 0, MaxSy, MaxSx>>, <<1, 2, 1, 2>>}
FieldRegions(pg) == {PageRegion(pg, q[1], q[2], q[3], q[4]) : q \in FieldRects}
FieldShifts == {0, 1}
FieldHfb == 2
BgHfb == 3
OvHfb == 4

NoText == [op |-> "new", reg |-> MkRegion(0, 0, 0, 0, 0, 0, 0, 0),
           cps |-> <<>>, text |-> <<>>, shift |-> 0, cursor |-> 0,
           ret |-> 0, curs |-> NoCurs, overflow |-> FALSE, norm |-> FALSE]

InitText ==
    /\ page = PageNew(MaxSy, MaxSx, PageHfb)
    /\ prev = page.rows
    /\ last = NoText
    /\ nops = 0
    /\ overflow_checks \in BOOLEAN
    /\ panicked = "none"
    /\ TermStart

\* Page::measure(text)
MeasureText(cps) ==
    /\ last.op = "new"
    /\ \E t \in {Utf8Text(cps)} :
        \E n \in {PageMeasure(t)} :
            /\ last' = [NoText EXCEPT !.op = "measure", !.cps = cps,
                                      !.text = t, !.ret = n]
            /\ panicked' = IF n < 0 THEN "index" ELSE "none"
    /\ nops' = nops + 1
    /\ UNCHANGED <<page, prev, overflow_checks, termVars>>

\* Region::write(0, 0, hfb, text) on region r of the new page
WriteText(r, cps) ==
    /\ last.op = "new"
    /\ nops' = nops + 1
    /\ \E t \in {Utf8Text(cps)} :
        \E w \in {RegionWrite(page, r, 0, 0, FieldHfb, t, overflow_checks)} :
            PageStep(w, [NoText EXCEPT !.op = "write", !.reg = r, !.cps = cps,
                                       !.text = t, !.ret = w.ret])

\* Region::field(shift, cursor, hfb, bg_hfb, ov_hfb, text) on region r of
\* the new page
Field(r, shift, cursor, cps) ==
    /\ last.op = "new"
    /\ nops' = nops + 1
    /\ \E t \in {Utf8Text(cps)} :
        \E f \in {RegionField(page, r, shift, cursor, FieldHfb, BgHfb, OvHfb, t,
                              overflow_checks)} :
            PageStep(f, [NoText EXCEPT !.op = "field", !.reg = r, !.cps = cps,
                                       !.text = t, !.shift = shift,
                                       !.cursor = cursor, !.curs = f.ret,
                                       !.overflow = f.overflow])

\* One operation is applied to the new page, then it is normalized.
NextText ==
    \/ /\ last.op = "new"
       /\ \E cps \in CpTexts(CodePoints) : MeasureText(cps)
    \/ /\ last.op = "new"
       /\ \E r \in FieldRegions(page), cps \in CpTexts(FieldCodePoints) :
                WriteText(r, cps)
    \/ /\ last.op = "new"
       /\ \E r \in FieldRegions(page), shift \in FieldShifts,
              cps \in CpTexts(FieldCodePoints) :
                \E cursor \in CharStarts(cps) : Field(r, shift, cursor, cps)
    \/ Normalize

SpecText == InitText /\ [][NextText]_vars

\* The codepoints of cps that are not attribute markers
Visible(cps) == {i \in DOMAIN cps : cps[i] < HFB_BASE \/ cps[i] > HFB_TOP}

\* C13: Page::measure of the UTF-8 encoding of a codepoint sequence is the
\* number of its codepoints outside U+E000..U+F8FF.
C13_MeasureCountsVisible ==
    last.op = "measure" => last.ret = Cardinality(Visible(last.cps))

\* C14: Region::clear and Region::write, on every region and sub-region
\* taken with Page::region and Region::region, clipped or wholly outside
\* the page, return without a panic.
C14_RegionOpsNeverPanic ==
    last.op \in {"clear", "write"} => panicked = "none"

\* C15: on a new page, in a build without overflow checks, Region::write
\* and Region::field return without a panic for the UTF-8 encoding of
\* every codepoint sequence, with 2-byte codepoints and attribute markers
\* among them, on regions narrower than the text.
C15_TextOpsNeverPanic ==
    (~overflow_checks /\ last.op \in {"write", "field"}) => panicked = "none"

\* What Scan::measure reads right after the first span command of a row
FirstMeasure(data) ==
    Bind(GetSpan(data, 0), LAMBDA sp :
    IF sp.k = "span" THEN Measure(sp.rest) ELSE MeasPanic(data))

\* C16: the page Page::new(sy, sx, hfb) returns has sy rows, each with
\* normal set and a log of exactly one span, [0, sx) with no shift, whose
\* marker decodes to hfb.
C16_NewPageRows ==
    (last.op = "new" /\ nops = 0) =>
        /\ DOMAIN page.rows = 0 .. page.sy - 1
        /\ \A y \in DOMAIN page.rows :
            /\ page.rows[y].normal
            /\ RowSpans(page.rows[y].data).ok
            /\ RowSpans(page.rows[y].data).spans
                    = <<[x |-> 0, sx |-> page.sx, shift |-> 0]>>
            /\ FirstMeasure(page.rows[y].data).m = "Attr"
            /\ FirstMeasure(page.rows[y].data).v = PageHfb

InsidePage(r) ==
    /\ r.sy > 0 /\ r.sx > 0
    /\ r.oy >= 0 /\ r.oy + r.sy <= page.sy
    /\ r.ox >= 0 /\ r.ox + r.sx <= page.sx

\* The spans the last operation appended to the log of row y
Appended(y) ==
    SpansFrom(Drop(page.rows[y].data, Len(prev[y].data)), prev[y].pos, <<>>).spans

\* C18: a field that returns, on a region wholly inside the page, has
\* overwritten every cell of every row of the region: each column of the
\* region lies in a span that field appended to the row's log.
C18_FieldOverwritesRegion ==
    (last.op = "field" /\ ~last.norm /\ panicked = "none" /\ InsidePage(last.reg)) =>
        \A y \in last.reg.oy .. last.reg.oy + last.reg.sy - 1 :
            \A c \in last.reg.ox .. last.reg.ox + last.reg.sx - 1 :
                \E i \in DOMAIN Appended(y) :
                    /\ Appended(y)[i].x <= c
                    /\ c < Appended(y)[i].x + Appended(y)[i].sx

\* C19: a field that returns with its overflow flag set, on a region
\* wholly inside the page, has drawn '>' in the last cell of the region's
\* last row: it appended to that row a span starting at the region's last
\* column, and the byte '>'.
C19_OverflowMarkerDrawn ==
    (last.op = "field" /\ ~last.norm /\ panicked = "none"
        /\ InsidePage(last.reg) /\ last.overflow) =>
        \E yl \in {last.reg.oy + last.reg.sy - 1} :
            /\ \E i \in DOMAIN Appended(yl) :
                    Appended(yl)[i].x = last.reg.ox + last.reg.sx - 1
            /\ \E k \in DOMAIN page.rows[yl].data :
                    /\ k > Len(prev[yl].data)
                    /\ page.rows[yl].data[k] = 62

\* C20: for ASCII text that fits a region wholly inside the page (fewer
\* glyphs than cells, no shift), field returns the cell of the cursor:
\* glyph number `cursor` counted row by row from the top-left, which for
\* cursor = text.len() is the cell after the last glyph.
C20_FieldReturnsCursorCell ==
    (last.op = "field" /\ ~last.norm /\ panicked = "none"
        /\ InsidePage(last.reg) /\ IsAscii(last.text) /\ last.shift = 0
        /\ Len(last.text) < last.reg.sy * last.reg.sx) =>
        last.curs = Curs(last.cursor \div last.reg.sx, last.cursor % last.reg.sx)

\* C11: an operation that finds the controller paused and leaves it paused
\* (so it runs between a pause and the matching resume) sends the
\* application no resize notification carrying the output buffer: every
\* notification it sends is None, a window-change signal's included.
C11_PausedResizeIsNone ==
    (hist.alive0 /\ hist.paused0 /\ term.paused) =>
        \A i \in DOMAIN hist.fwd : hist.fwd[i] = "None"

\* C24: TermOut::save_cleanup moves the whole buffer into the pending slot
\* and leaves the buffer empty; the next Terminal::flush makes the slot's
\* bytes the controller's cleanup string, empties the slot, and writes to
\* the FD only bytes of the buffer it found, all of them appended after
\* save_cleanup: none of the saved bytes goes out as ordinary output.
C24_SaveCleanupAdopted ==
    [][/\ (hist'.op = "save_cleanup") =>
              /\ tout'.new_cleanup = Some(tout.buf)
              /\ tout'.buf = <<>>
       /\ (hist'.op = "flush" /\ tout.new_cleanup.some) =>
              /\ term'.cleanup = tout.new_cleanup.v
              /\ ~tout'.new_cleanup.some
              /\ Len(fd') <= Len(tout.buf)
              /\ fd' = Take(tout.buf, Len(fd'))]_vars

\* A flush that adopted a cleanup string saved from a non-empty buffer.
C24_Witness ==
    /\ hist.op = "flush"
    /\ hist.res = "ok"
    /\ hist.cleanup0 = ESC_C
    /\ term.cleanup = <<97>>
    /\ ~tout.new_cleanup.some

\* C25: Terminal::flush on a paused controller writes nothing to the FD,
\* returns, and removes from the buffer exactly the bytes [0, flush_to);
\* no operation of the application on a paused controller writes a byte of
\* the buffer to the FD, and a resume that ends the pause leaves the buffer
\* empty.
C25_PausedFlushDrops ==
    [][/\ (term.paused /\ ~term.disable_output /\ hist'.op = "flush") =>
              /\ fd' = <<>>
              /\ hist'.res = "ok"
              /\ tout'.buf = Drop(tout.buf, tout.flush_to)
       /\ (term.paused /\ hist'.op \in {"out", "mark", "save_cleanup", "resume"}) =>
              fd' = <<>>
       /\ (term.paused /\ hist'.op = "resume" /\ ~term'.paused) =>
              tout'.buf = <<>>]_vars

\* C26: Terminal::resume on a paused controller, when the OS reports no
\* error, leaves it not paused with the TTY raw and the stdin listener
\* registered, empties the buffer and sends exactly one resize
\* notification, Some with the size just queried; resume on a controller
\* that is not paused and pause on a paused one change nothing and send
\* and write nothing.
C26_ResumeRestores ==
    [][/\ (hist'.op = "resume" /\ term.paused /\ ~env.pending /\ ~env'.pending
              /\ term'.failed = "none") =>
              /\ ~term'.paused
              /\ env'.tty = "raw"
              /\ glue'.stdin_src
              /\ tout'.buf = <<>>
              /\ tout'.flush_to = 0
              /\ tout'.size = TtySize
              /\ hist'.fwd = <<"Some">>
              /\ fd' = <<>>
       /\ ((hist'.op = "resume" /\ ~term.paused)
              \/ (hist'.op = "pause" /\ term.paused)) =>
              /\ UNCHANGED <<term, tout, glue, hook, env>>
              /\ hist'.fwd = <<>>
              /\ fd' = <<>>]_vars

\* A resume that found the controller paused with bytes in the buffer.
C26_Witness ==
    /\ hist.op = "resume"
    /\ hist.paused0
    /\ ~term.paused
    /\ term.failed = "none"
    /\ env.tty = "raw"
    /\ glue.stdin_src
    /\ hist.fwd = <<"Some">>

\* C27: Terminal::bell whose write succeeds writes exactly the byte 0x07
\* to the FD, paused or not, and leaves the TermOut buffer, its flush mark
\* and the rest of TermOut as they were; a bell that ends with output
\* disabled (its write failed, or output was disabled before) has written
\* nothing, the cleanup string of the failure's pause included.
C27_BellWritesBel ==
    [][/\ (hist'.op = "bell" /\ ~term.disable_output /\ hist'.res = "ok") =>
              /\ fd' = <<BEL>>
              /\ tout' = tout
       /\ (hist'.op = "bell" /\ term'.disable_output) => fd' = <<>>]_vars

\* A bell rung on a paused controller.
C27_Witness ==
    /\ hist.op = "bell"
    /\ hist.paused0
    /\ hist.res = "ok"
    /\ fd = <<BEL>>

\* ===================================================================
\* TermOut: the append operations
\* ===================================================================
\* The operations below work on t = [buf, flush_to, new_cleanup, size],
\* the TermOut, and answer [trap, t]: t as the operation left it, and
\* trap = "rem" when it panicked taking a remainder by zero.
I32_MIN == -2147483647 - 1
I32_MAX == -(I32_MIN + 1)
DIGIT0 == 48

\* TermOut::out / bytes / byt / asc / esc / csi: bytes pushed to the buffer
Out(t, data) == [t EXCEPT !.buf = @ \o data]

\* TermOut::num: the bytes it pushes for v
TermOutNum(v) ==
    IF v <= 0 THEN <<DIGIT0>>
    ELSE IF v <= 9 THEN <<v + DIGIT0>>
    ELSE IF v <= 99 THEN <<(v \div 10) + DIGIT0, (v % 10) + DIGIT0>>
    ELSE IF v <= 999
    THEN <<(v \div 100) + DIGIT0, ((v \div 10) % 10) + DIGIT0, (v % 10) + DIGIT0>>
    ELSE <<57, 57, 57>>

\* i32::rem_euclid for a divisor b > 0
RemEuclid(a, b) == a % b

\* i32's `%` (the remainder has the sign of a) for a divisor b > 0
RemTrunc(a, b) == IF a >= 0 \/ a % b = 0 THEN a % b ELSE (a % b) - b

\* TermOut::at taking the remainders with `%`.
TermOutAtRem(t, y, x) ==
    IF t.size[1] = 0
    THEN [trap |-> "rem", t |-> Out(t, <<27, 91>>)]
    ELSE IF t.size[2] = 0
    THEN [trap |-> "rem",
          t |-> Out(t, <<27, 91>> \o TermOutNum(RemTrunc(y, t.size[1]) + 1)
                           \o <<59>>)]
    ELSE [trap |-> "none",
          t |-> Out(t, <<27, 91>> \o TermOutNum(RemTrunc(y, t.size[1]) + 1)
                           \o <<59>> \o TermOutNum(RemTrunc(x, t.size[2]) + 1)
                           \o <<72>>)]

\* TermOut::at: csi() has run when y.rem_euclid(sy) is evaluated, and
\* num(..).asc(';') when x.rem_euclid(sx) is.
TermOutAt(t, y, x) ==
    IF t.size[1] = 0
    THEN [trap |-> "rem", t |-> Out(t, <<27, 91>>)]
    ELSE IF t.size[2] = 0
    THEN [trap |-> "rem",
          t |-> Out(t, <<27, 91>> \o TermOutNum(RemEuclid(y, t.size[1]) + 1)
                           \o <<59>>)]
    ELSE [trap |-> "none",
          t |-> Out(t, <<27, 91>> \o TermOutNum(RemEuclid(y, t.size[1]) + 1)
                           \o <<59>> \o TermOutNum(RemEuclid(x, t.size[2]) + 1)
                           \o <<72>>)]

\* TermOut::attr
TermOutAttr(t, codes) == [trap |-> "none", t |-> Out(t, <<27, 91>> \o codes \o <<109>>)]

\* TermOut::hfb, for hfb: u8
FG == <<30, 34, 31, 35, 32, 36, 33, 37, 39, 39>>
TermOutHfb(t, hfb) ==
    [trap |-> "none",
     t |-> Out(t, <<27, 91, 48, 59>>
                  \o (IF hfb >= 100 THEN <<49, 59>> ELSE <<>>)
                  \o TermOutNum(FG[((hfb \div 10) % 10) + 1]) \o <<59>>
                  \o TermOutNum(10 + FG[(hfb % 10) + 1]) \o <<109>>)]

\* TermOut::spaces: `for _ in 0..n` runs no time for n <= 0
TermOutSpaces(t, n) == [trap |-> "none", t |-> Out(t, [i \in 1..n |-> 32])]

\* TermOut::scroll_up
TermOutScrollUp(t) ==
    Bind(TermOutAt(t, -1, 0), LAMBDA a :
    IF a.trap # "none" THEN a ELSE [trap |-> "none", t |-> Out(a.t, <<10>>)])

\* ------------------------------------------------ the inputs of TermOut
\* Sizes Glue::get_size can report (u16 rows and columns) and TermOut::new's
\* (0, 0); coordinates over the whole of i32; buffers before the call.
OutDims == {0, 1, 10, 100, 999, 65535}
OutCoords == {I32_MIN, -1000, -1, 0, 9, 99, 998, I32_MAX}
OutNums == {I32_MIN, -1, 0, 5, 9, 10, 99, 100, 999, 1000, I32_MAX}
OutHfbs == {0, 17, 99, 100, 189, 255}
OutSpaces == {I32_MIN, -1, 0, 1, 3}
\* "", "1;31;46", and the strings of show_cursor, erase_eol, clear
OutStrs == {<<>>, <<49, 59, 51, 49, 59, 52, 54>>,
            <<27, 91, 63, 50, 53, 104, 27, 91, 63, 48, 99>>,
            <<27, 91, 75>>, <<27, 91, 50, 74>>}
OutBufs == {<<>>, <<97>>, <<27, 99>>}

NoOut == [op |-> "new", y |-> 0, x |-> 0, t0 |-> TermOutNew]

\* The controller after a Terminal::init that met no error (all of it but
\* the TermOut and the input side).
TermReady ==
    /\ term = [alive |-> TRUE, paused |-> FALSE, disable_output |-> FALSE,
               cleanup |-> ESC_C, panic_hook |-> "prev", failed |-> "none"]
    /\ glue = [saved |-> "cooked", stdin_src |-> TRUE]
    /\ hook = MkHook("cleanup", ESC_C, "cooked", "prev")
    /\ fd = <<>>
    /\ env = [tty |-> "raw", pending |-> FALSE, trapped |-> FALSE,
              ended |-> FALSE]
    /\ hist = [op |-> "init", paused0 |-> FALSE, disabled0 |-> FALSE,
               alive0 |-> FALSE, cleanup0 |-> <<>>, res |-> "ok",
               fwd |-> <<"Some">>, log |-> <<>>, mark |-> 0, expect |-> <<>>,
               left |-> <<>>, wfail |-> FALSE, late |-> <<>>]

\* The controller after a Terminal::init that met no error, the TermOut
\* with some bytes in the buffer and some size.
InitOut ==
    /\ page = PageNew(MaxSy, MaxSx, PageHfb)
    /\ prev = page.rows
    /\ last = NoOut
    /\ nops = 0
    /\ overflow_checks = FALSE
    /\ panicked = "none"
    /\ TermReady
    /\ inp = InStart
    /\ \E b \in OutBufs, f \in 0..2, sy \in OutDims, sx \in OutDims :
            /\ f <= Len(b)
            /\ tout = [buf |-> b, flush_to |-> f, new_cleanup |-> None,
                       size |-> <<sy, sx>>]

\* An append operation on the TermOut that ended with r = [trap, t].
OutStep(r, op, y, x) ==
    /\ last.op = "new"
    /\ tout' = r.t
    /\ panicked' = r.trap
    /\ last' = [op |-> op, y |-> y, x |-> x, t0 |-> tout]
    /\ UNCHANGED <<page, prev, nops, overflow_checks, term, glue, hook, fd,
                   env, hist, inp>>

CallOutStr(s) == OutStep([trap |-> "none", t |-> Out(tout, s)], "out", 0, 0)
CallAttr(s) == OutStep(TermOutAttr(tout, s), "attr", 0, 0)
CallNum(v) == OutStep([trap |-> "none", t |-> Out(tout, TermOutNum(v))], "num", v, 0)
CallAt(y, x) == OutStep(TermOutAt(tout, y, x), "at", y, x)
CallHfb(h) == OutStep(TermOutHfb(tout, h), "hfb", h, 0)
CallSpaces(n) == OutStep(TermOutSpaces(tout, n), "spaces", n, 0)
CallScrollUp == OutStep(TermOutScrollUp(tout), "scroll_up", 0, 0)

NextOut ==
    \/ \E s \in OutStrs : CallOutStr(s)
    \/ \E s \in OutStrs : CallAttr(s)
    \/ \E v \in OutNums : CallNum(v)
    \/ \E y \in OutCoords, x \in OutCoords : CallAt(y, x)
    \/ \E h \in OutHfbs : CallHfb(h)
    \/ \E n \in OutSpaces : CallSpaces(n)
    \/ CallScrollUp

SpecOut == InitOut /\ [][NextOut]_vars

\* ===================================================================
\* TermOut: properties
\* ===================================================================
\* C28: no append operation of TermOut panics, whatever its arguments, the
\* buffer it finds and the recorded size, a size with a zero dimension
\* included.
C28_AppendNeverPanics ==
    (last.op \in {"out", "attr", "num", "at", "hfb", "spaces", "scroll_up"}) =>
        panicked = "none"

\* The decimal form of n >= 0, without leading zeros
RECURSIVE Dec(_)
Dec(n) == IF n < 10 THEN <<DIGIT0 + n>> ELSE Dec(n \div 10) \o <<DIGIT0 + (n % 10)>>

\* The r in 0..b-1 with a = q*b + r for an integer q (b > 0); for a < 0
\* b is added to both sides, which keeps the sums within 32 bits.
EMod(a, b) ==
    CHOOSE r \in 0..(b - 1) :
        \E q \in {a \div b} :
            IF a >= 0 THEN q * b + r = a ELSE (q + 1) * b + r = a + b

\* C29: with a size of 1..999 rows and columns, at(y, x) appends
\* ESC [ R ; C H to the buffer, R and C the decimal forms without leading
\* zeros of (y mod sy) + 1 and (x mod sx) + 1, the modulo non-negative, and
\* changes nothing else of TermOut; at(-1, -1) addresses row sy, column sx.
C29_AtAppendsPosition ==
    (last.op = "at" /\ last.t0.size[1] \in 1..999 /\ last.t0.size[2] \in 1..999) =>
        /\ panicked = "none"
        /\ tout = [last.t0 EXCEPT !.buf =
                      @ \o <<27, 91>> \o Dec(EMod(last.y, last.t0.size[1]) + 1)
                        \o <<59>> \o Dec(EMod(last.x, last.t0.size[2]) + 1)
                        \o <<72>>]
        /\ (last.y = -1 /\ last.x = -1) =>
                tout.buf = last.t0.buf \o <<27, 91>> \o Dec(last.t0.size[1])
                             \o <<59>> \o Dec(last.t0.size[2]) \o <<72>>

\* at(-1, -1) on a 100 x 999 screen with bytes already in the buffer
C29_Witness ==
    /\ last.op = "at"
    /\ last.y = -1
    /\ last.x = -1
    /\ last.t0.size = <<100, 999>>
    /\ last.t0.buf = <<27, 99>>
    /\ tout.buf = <<27, 99, 27, 91, 49, 48, 48, 59, 57, 57, 57, 72>>

\* ===================================================================
\* Input: Glue::read_data, Terminal::handle_data_in, do_data_in, the timers
\* ===================================================================
\* The operations below work on i, the input side (see InStart).  Time is
\* in milliseconds.
MaxIn == 3          \* bytes read from stdin in all
MaxTicks == 3       \* clock ticks
MaxReads == 3       \* read calls counted in one read_data
FORCE_MS == 100
CHECK_MS == 300
ESC == 27
\* The clock advances in steps of this many milliseconds.
TickMs == FORCE_MS

\* Key::decode(bytes, force) -> Option<(count, key)>.  Its source is not
\* in the repository's src/; this follows the specification: None when
\* the bytes are an ambiguous prefix and force is off, otherwise the count
\* of bytes consumed and the key.  ESC alone and ESC [ are the ambiguous
\* prefixes, ESC [ A is the up-arrow key.
KeyNone == [some |-> FALSE, count |-> 0, key |-> ""]
KeySome(count, key) == [some |-> TRUE, count |-> count, key |-> key]
KeyDecode(b, force) ==
    IF Len(b) = 0 THEN KeyNone
    ELSE IF b[1] # ESC THEN KeySome(1, "Char")
    ELSE IF Len(b) = 1 THEN (IF force THEN KeySome(1, "Esc") ELSE KeyNone)
    ELSE IF b[2] # 91 THEN KeySome(2, "Meta")
    ELSE IF Len(b) = 2 THEN (IF force THEN KeySome(2, "Meta") ELSE KeyNone)
    ELSE IF b[3] = 65 THEN KeySome(3, "Up")
    ELSE KeySome(2, "Meta")

\* timer_max!(key, expiry, ..): one outstanding firing per key, at the
\* latest expiry asked for
TimerMax(t, expiry) == IF t = NoTimer THEN expiry ELSE Max(t, expiry)

\* One key forwarded to `input`: the bytes it consumed (none for
\* Key::Check), when, and whether by a forced decode.
Fwd(key, bytes, at, forced) ==
    [key |-> key, bytes |-> bytes, at |-> at, forced |-> forced]

\* libc::read in Glue::read_data's loop, asked to hand over n of the bytes
\* stdin holds (n = 0: none is left): it returns n, or at the end of the
\* bytes -1 for EAGAIN or an error and 0 for end-of-file.
SysRead(i, n) ==
    [i EXCEPT !.cnt = IF n > 0 THEN n ELSE IF i.stdin.end = "eof" THEN 0 ELSE -1,
              !.got = TRUE,
              !.reads = Min(@ + 1, MaxReads)]

\* The rest of the loop's body: break if cnt < 0, else append the cnt
\* bytes read and go round again.
ReadOnce(i) ==
    IF i.cnt < 0 THEN [i EXCEPT !.got = FALSE, !.reading = FALSE]
    ELSE [i EXCEPT !.inbuf = @ \o Take(i.stdin.data, i.cnt),
                   !.rx = @ \o Take(i.stdin.data, i.cnt),
                   !.rx_at = IF i.cnt > 0 THEN i.now ELSE @,
                   !.stdin.data = Drop(@, i.cnt),
                   !.got = FALSE]

\* Glue::read_data as far as it gets: to its return, or into the loop
\* that end-of-file never leaves (hung).
ReadData(i) ==
    Bind(ReadOnce(SysRead([i EXCEPT !.reading = TRUE, !.reads = 0],
                          Len(i.stdin.data))),
         LAMBDA i1 :
    IF Len(i.stdin.data) = 0 THEN [i1 EXCEPT !.hung = i1.reading]
    ELSE Bind(ReadOnce(SysRead(i1, 0)), LAMBDA i2 : [i2 EXCEPT !.hung = i2.reading]))

\* do_data_in's while loop from pos on, and the drain that follows it
RECURSIVE DecodeLoop(_, _, _)
DecodeLoop(i, pos, force) ==
    IF pos >= Len(i.inbuf) THEN [i EXCEPT !.inbuf = Drop(@, pos)]
    ELSE Bind(KeyDecode(Drop(i.inbuf, pos), force), LAMBDA k :
         IF ~k.some THEN [i EXCEPT !.inbuf = Drop(@, pos)]
         ELSE DecodeLoop(
                [i EXCEPT !.keys = Append(@, Fwd(k.key,
                                                 SubSeq(i.inbuf, pos + 1, pos + k.count),
                                                 i.now, force)),
                          !.check_timer = IF i.check_enable
                                          THEN TimerMax(@, i.now + CHECK_MS)
                                          ELSE @],
                pos + k.count, force))

\* do_data_in's drain discarding the whole of inbuf.
DoDataInClear(i, force) ==
    IF Len(i.inbuf) = 0 THEN i
    ELSE [DecodeLoop(IF force THEN i
                     ELSE [i EXCEPT !.force_timer = TimerMax(@, i.now + FORCE_MS)],
                     0, force) EXCEPT !.inbuf = <<>>]

\* do_data_in arming the force timer only while none is outstanding.
DoDataInNoExtend(i, force) ==
    IF Len(i.inbuf) = 0 THEN i
    ELSE DecodeLoop(IF force \/ i.force_timer # NoTimer THEN i
                    ELSE [i EXCEPT !.force_timer = i.now + FORCE_MS],
                    0, force)

\* Terminal::do_data_in
DoDataIn(i, force) ==
    IF Len(i.inbuf) = 0 THEN i
    ELSE DecodeLoop(IF force THEN i
                    ELSE [i EXCEPT !.force_timer = TimerMax(@, i.now + FORCE_MS)],
                    0, force)

\* Terminal::handle_data_in finding stdin = [data, end]
HandleDataIn(i, data, end) ==
    Bind(ReadData([i EXCEPT !.stdin = [data |-> data, end |-> end]]), LAMBDA i1 :
    IF i1.hung THEN i1 ELSE DoDataIn(i1, FALSE))

\* Terminal::check_key
CheckKey(i) ==
    IF i.check_enable
    THEN [i EXCEPT !.keys = Append(@, Fwd("Check", <<>>, i.now, FALSE))]
    ELSE i

\* ------------------------------------------------------ the input's steps
\* ESC, '[' and 'A'
InBytes == {ESC, 91, 65}
\* What one handle_data_in finds: nothing, one byte, or two bytes that
\* begin, complete or follow a sequence
InChunks == {<<>>} \cup {<<a>> : a \in InBytes}
                \cup {<<ESC, 91>>, <<91, 65>>, <<65, ESC>>}
ReadEnds == {"again", "error", "eof"}

\* The actor takes input events: it has not failed, no handle_error_in is
\* queued for it, and it is not inside a read_data that does not return.
InputLive == Deliverable /\ ~env.pending /\ ~inp.hung /\ ~inp.reading

\* A timer outstanding and due
Due(t) == t # NoTimer /\ t <= inp.now

InStep(i, op) ==
    /\ inp' = [i EXCEPT !.op = op]
    /\ UNCHANGED <<pageVars, term, tout, glue, hook, fd, hist>>

\* stdin is readable: Terminal::handle_data_in.  A read error queues
\* handle_error_in (env.pending).
CallHandleDataIn(data, end) ==
    /\ InputLive
    /\ glue.stdin_src
    /\ Len(inp.rx) + Len(data) <= MaxIn
    /\ InStep(HandleDataIn(inp, data, end), "data")
    /\ env' = [env EXCEPT !.pending = (end = "error")]

\* Terminal::check
CallCheck(enable) ==
    /\ InputLive
    /\ enable # inp.check_enable
    /\ InStep([inp EXCEPT !.check_enable = enable], "check")
    /\ UNCHANGED env

\* The force timer fires: do_data_in(true)
FireForceTimer ==
    /\ InputLive
    /\ Due(inp.force_timer)
    /\ InStep(DoDataIn([inp EXCEPT !.force_timer = NoTimer], TRUE), "force")
    /\ UNCHANGED env

\* The idle-check timer fires: check_key()
FireCheckTimer ==
    /\ InputLive
    /\ Due(inp.check_timer)
    /\ InStep(CheckKey([inp EXCEPT !.check_timer = NoTimer]), "check_key")
    /\ UNCHANGED env

\* Time passes; a timer that is due fires before it does.
Tick ==
    /\ InputLive
    /\ inp.now < MaxTicks * TickMs
    /\ ~Due(inp.force_timer)
    /\ ~Due(inp.check_timer)
    /\ InStep([inp EXCEPT !.now = @ + TickMs], "tick")
    /\ UNCHANGED env

InitIn ==
    /\ page = PageNew(MaxSy, MaxSx, PageHfb)
    /\ prev = page.rows
    /\ last = NoOp
    /\ nops = 0
    /\ overflow_checks = FALSE
    /\ panicked = "none"
    /\ TermReady
    /\ tout = [TermOutNew EXCEPT !.size = TtySize]
    /\ inp = InStart

NextIn ==
    \/ \E data \in InChunks, end \in ReadEnds : CallHandleDataIn(data, end)
    \/ \E enable \in BOOLEAN : CallCheck(enable)
    \/ FireForceTimer
    \/ FireCheckTimer
    \/ Tick

SpecIn == InitIn /\ [][NextIn]_vars

\* ------------------------------------ read_data, one read call at a time
\* Glue::read_data is entered with stdin holding some bytes and then
\* answering EAGAIN, an error or end-of-file.
InitRead ==
    /\ page = PageNew(MaxSy, MaxSx, PageHfb)
    /\ prev = page.rows
    /\ last = NoOp
    /\ nops = 0
    /\ overflow_checks = FALSE
    /\ panicked = "none"
    /\ TermReady
    /\ tout = [TermOutNew EXCEPT !.size = TtySize]
    /\ \E d1 \in InChunks, d2 \in InChunks, end \in ReadEnds :
            inp = [InStart EXCEPT !.stdin = [data |-> d1 \o d2, end |-> end],
                                  !.reading = TRUE, !.op = "read"]

\* One read call of the loop: the OS hands over between 1 and all of the
\* bytes stdin holds, or, when it holds none, the end.
ReadCall(n) ==
    /\ inp.reading
    /\ ~inp.got
    /\ n <= Len(inp.stdin.data)
    /\ (n = 0) = (Len(inp.stdin.data) = 0)
    /\ inp' = SysRead(inp, n)
    /\ UNCHANGED <<pageVars, term, tout, glue, hook, fd, env, hist>>

\* The loop looks at what read returned.  A read error queues
\* handle_error_in (env.pending).
ReadTest ==
    /\ inp.reading
    /\ inp.got
    /\ inp' = ReadOnce(inp)
    /\ env' = [env EXCEPT !.pending = (inp.cnt < 0 /\ inp.stdin.end = "error")]
    /\ UNCHANGED <<pageVars, term, tout, glue, hook, fd, hist>>

NextRead ==
    \/ \E n \in 0..Len(inp.stdin.data) : ReadCall(n)
    \/ ReadTest

SpecRead == InitRead /\ [][NextRead]_vars /\ WF_vars(NextRead)

\* ===================================================================
\* Input: properties
\* ===================================================================
\* C21: a key for a lone ESC, and any key of a forced decode, is
\* forwarded only when the force timer fires, not before 100 ms have
\* passed since the last bytes were read; while bytes wait in
\* inbuf the force timer is outstanding; when it fires on a lone ESC,
\* exactly one key, consuming the ESC, is forwarded and the timer is
\* spent; when '[' 'A' are read while the lone ESC waits, exactly one key
\* is forwarded, for the three bytes together, by an unforced decode.
C21_ForcedDecodeOnlyAfterTimeout ==
    [][/\ \A k \in (Len(inp.keys) + 1)..Len(inp'.keys) :
              (inp'.keys[k].bytes = <<ESC>> \/ inp'.keys[k].forced) =>
                  /\ inp'.op = "force"
                  /\ inp'.keys[k].forced
                  /\ inp'.now >= inp.rx_at + FORCE_MS
       /\ (inp'.inbuf # <<>> /\ ~inp'.hung) => inp'.force_timer # NoTimer
       /\ (inp'.op = "force" /\ inp.inbuf = <<ESC>>) =>
              /\ inp'.keys = Append(inp.keys, Fwd("Esc", <<ESC>>, inp.now, TRUE))
              /\ inp'.inbuf = <<>>
              /\ inp'.force_timer = NoTimer
       /\ (inp'.op = "data" /\ ~inp'.hung /\ inp.inbuf = <<ESC>>
              /\ inp'.rx = inp.rx \o <<91, 65>>) =>
              /\ inp'.keys = Append(inp.keys,
                                    Fwd("Up", <<ESC, 91, 65>>, inp.now, FALSE))
              /\ inp'.inbuf = <<>>]_vars

\* A lone ESC was read at time 0 and forwarded as a key by the forced
\* decode 100 ms later.
C21_Witness ==
    /\ inp.op = "force"
    /\ inp.rx = <<ESC>>
    /\ inp.keys = <<Fwd("Esc", <<ESC>>, FORCE_MS, TRUE)>>
    /\ inp.inbuf = <<>>

\* C22: a Key::Check is forwarded only when 300 ms or more have passed
\* since every decoded key forwarded before it, the most recent one
\* included.
C22_CheckOnlyAfterIdle ==
    \A k \in DOMAIN inp.keys :
        (inp.keys[k].key = "Check") =>
            \A j \in 1..(k - 1) :
                (inp.keys[j].key # "Check") =>
                    inp.keys[k].at >= inp.keys[j].at + CHECK_MS

\* The bytes the forwarded keys consumed, in the order forwarded
RECURSIVE Consumed(_)
Consumed(keys) ==
    IF Len(keys) = 0 THEN <<>> ELSE keys[1].bytes \o Consumed(Tail(keys))

\* C23: the bytes consumed by the keys forwarded so far, in order, followed
\* by the bytes still in inbuf, are the bytes read from stdin in the order
\* read: none is dropped, decoded twice or moved.
C23_InputConserved == Consumed(inp.keys) \o inp.inbuf = inp.rx

\* Two keys forwarded and an undecided ESC left in inbuf
C23_Witness ==
    /\ Len(inp.keys) = 2
    /\ inp.inbuf = <<ESC>>
    /\ Len(inp.rx) = MaxIn

\* C30: Glue::read_data, once entered, returns.
C30_ReadDataReturns == <>(~inp.reading)

\* C31: between operations the flush mark lies within the buffer:
\* 0 <= flush_to <= len(buf), so that data_to_flush and drain_flush take
\* a prefix that exists.
C31_FlushToInRange ==
    term.alive => (0 <= tout.flush_to /\ tout.flush_to <= Len(tout.buf))

\* C32: scanning a row log that Page::new and the region operations built
\* never panics in Scan::get_span or Scan::get_arg ("Expecting span
\* command", "Expecting command argument value").
C32_ScanFindsSpanCommands ==
    (panicked = "none") =>
        \A y \in DOMAIN page.rows :
            RowGlyphs(page.rows[y].data, page.sx, overflow_checks).trap # "span"

\* The span headers GlyphScan reads while it runs over a whole log, each
\* with the x get_span gave it (the scan's own x when the header omits
\* it): the loop of GlyphScan::next carried on past every glyph, as the
\* repeated calls of normalize and difference carry it on.  [trap, spans].
RECURSIVE ScanSpans(_, _, _, _)
ScanSpans(gs, shift, acc, checks) ==
    IF gs.xend = 0 THEN
        Bind(GetSpan(gs.p, gs.x), LAMBDA sp :
        CASE sp.k = "none" -> [trap |-> "none", spans |-> acc]
          [] sp.k = "panic" -> [trap |-> "span", spans |-> acc]
          [] OTHER ->
                IF checks /\ sp.x + sp.sx >= U16
                THEN [trap |-> "overflow", spans |-> acc]
                ELSE ScanSpans(
                        [gs EXCEPT !.p = sp.rest, !.x = sp.x,
                                   !.xend = Min(gs.sx, AsU16(sp.x + sp.sx))],
                        sp.shift,
                        Append(acc, [x |-> sp.x, sx |-> sp.sx,
                                     shift |-> sp.shift]),
                        checks))
    ELSE
        Bind(Measure(gs.p), LAMBDA m :
        CASE m.m = "Glyph" ->
                IF checks /\ (gs.x + m.v >= U16
                              \/ (gs.x < gs.xend /\ m.v < shift))
                THEN [trap |-> "overflow", spans |-> acc]
                ELSE ScanSpans([gs EXCEPT !.p = m.rest,
                                          !.x = AsU16(gs.x + m.v)],
                               0, acc, checks)
          [] m.m = "Attr" ->
                ScanSpans([gs EXCEPT !.p = m.rest, !.hfb = m.v],
                          shift, acc, checks)
          [] m.m = "End" ->
                IF gs.x < gs.xend
                THEN IF checks
                     THEN [trap |-> "overflow", spans |-> acc]
                     ELSE ScanSpans([gs EXCEPT !.x = gs.xend, !.xend = 0],
                                    0, acc, checks)
                ELSE ScanSpans([gs EXCEPT !.xend = 0], shift, acc, checks)
          [] OTHER -> [trap |-> "index", spans |-> acc])

\* The spans a scan of the whole row recovers.
RowScanSpans(data, sx, checks) ==
    ScanSpans(GlyphScanNew(data, sx, Len(data)), 0, <<>>, checks)

\* C33: a scan of a whole row log recovers, for every span header in it,
\* the x, sx and shift that Row::span encoded; a header that omits x stands
\* for the row's pos at the time, the x + sx of the header before it.
C33_ScanRecoversSpans ==
    (panicked = "none") =>
        \A y \in DOMAIN page.rows :
            LET sc == RowScanSpans(page.rows[y].data, page.sx, overflow_checks)
                en == RowSpans(page.rows[y].data)
            IN (sc.trap = "none" /\ en.ok) => sc.spans = en.spans

\* ===================================================================
\* Command arguments: Row::arg against Scan::get_arg
\* ===================================================================
MaxTail == 1

\* The largest value two argument bytes can carry: (0xFF - 128) << 8 | 0xFF.
ARG_MAX == (255 - 128) * 256 + 255

\* What follows the argument in the log: nothing, or command bytes.
ArgTails == UNION {[1 .. n -> {255}] : n \in 0 .. MaxTail}

NoArg == [op |-> "new", v |-> 0, tail |-> <<>>, bytes |-> <<>>,
          got |-> [ok |-> FALSE, v |-> 0, rest |-> <<>>]]

\* Any u16 value, followed by any tail.
InitArg ==
    /\ page = PageNew(MaxSy, MaxSx, PageHfb)
    /\ prev = page.rows
    /\ \E v \in 0 .. U16 - 1, t \in ArgTails :
            last = [NoArg EXCEPT !.v = v, !.tail = t]
    /\ nops = 0
    /\ overflow_checks = FALSE
    /\ panicked = "none"
    /\ TermStart

\* Row::arg(val) on an empty log
CallArg ==
    /\ last.op = "new"
    /\ last' = [last EXCEPT !.op = "arg", !.bytes = RowArg(<<>>, last.v)]
    /\ UNCHANGED <<page, prev, nops, overflow_checks, panicked, termVars>>

\* Scan::get_arg on the bytes of Row::arg and what follows them
CallGetArg ==
    /\ last.op = "arg"
    /\ \E g \in {GetArg(last.bytes \o last.tail)} :
            /\ last' = [last EXCEPT !.op = "get_arg", !.got = g]
            /\ panicked' = IF g.ok THEN "none" ELSE "span"
    /\ UNCHANGED <<page, prev, nops, overflow_checks, termVars>>

NextArg == CallArg \/ CallGetArg

SpecArg == InitArg /\ [][NextArg]_vars

\* C34: for v in 0..=32767 Row::arg emits the byte v when v < 128 and
\* otherwise (v >> 8) | 0x80 then v & 0xFF, and Scan::get_arg on those
\* bytes returns v and stops exactly behind them.
C34_ArgRoundTrip ==
    (last.op \in {"arg", "get_arg"} /\ last.v <= ARG_MAX) =>
        /\ last.bytes = IF last.v < 128 THEN <<last.v>>
                        ELSE <<(last.v \div 256) + 128, last.v % 256>>
        /\ last.op = "get_arg" =>
                /\ last.got.ok
                /\ last.got.v = last.v
                /\ last.got.rest = last.tail

C34_Witness ==
    /\ last.op = "get_arg"
    /\ last.v = ARG_MAX
    /\ last.tail # <<>>
    /\ last.got = [ok |-> TRUE, v |-> ARG_MAX, rest |-> last.tail]

\* C35: the padding glyph (len = 0) that GlyphScan::next yields where a
\* span's text ends short of it starts just behind the text and reaches
\* to the end of the span, at most to the page width; a span without text,
\* as Page::new writes it, is read as one padding glyph over the whole span.
C35_PaddingFillsSpan ==
    (panicked = "none") =>
        \A y \in DOMAIN page.rows :
            LET r == RowGlyphs(page.rows[y].data, page.sx, overflow_checks) IN
            /\ \A i \in DOMAIN r.glyphs :
                    r.glyphs[i].len = 0 =>
                        /\ r.glyphs[i].sx >= 1
                        /\ r.glyphs[i].x + r.glyphs[i].sx <= page.sx
            /\ last.op = "new" =>
                    /\ r.trap = "none"
                    /\ Len(r.glyphs) = 1
                    /\ r.glyphs[1].len = 0
                    /\ r.glyphs[1].x = 0
                    /\ r.glyphs[1].sx = page.sx

\* C36: for two rows of the page that have been through normalize, the
\* first taken as old and the second as new, painting the glyphs that
\* Row::difference hands to the callback over the rendering of old gives
\* the rendering of new in every cell.
C36_DifferencePaintsNew ==
    (last.norm /\ panicked = "none" /\ ~overflow_checks) =>
        \A y0, y1 \in DOMAIN page.rows :
            LET d == RowDifference(page.rows[y0], page.rows[y1], page.sx, FALSE)
                ro == Render(page.rows[y0].data, page.sx, FALSE)
                rn == Render(page.rows[y1].data, page.sx, FALSE)
            IN (d.trap = "none" /\ ro.trap = "none" /\ rn.trap = "none") =>
                    Paint(ro.cells, d.cbs, 1, page.rows[y1].data) = rn.cells

\* ===================================================================
\* Row::difference step by step
\* ===================================================================
\* The first row of the new page and of every page one clear or one write
\* away from it, in a build with or without overflow checks.
DiffRows(checks) ==
    LET pg == PageNew(MaxSy, MaxSx, PageHfb)
        ops == {RegionClear(pg, r, h, checks) : r \in Regions(pg), h \in Hfbs}
               \cup {[trap |-> w.trap, rows |-> w.rows] :
                        w \in {RegionWrite(pg, r, 0, x, h, t, checks) :
                                 r \in Regions(pg), x \in WriteXs,
                                 h \in WriteHfbs, t \in Texts}}
    IN {pg.rows[0]} \cup {c.rows[0] : c \in {o \in ops : o.trap = "none"}}

NoDiff == [op |-> "new", old |-> RowNew(0, 0), new |-> RowNew(0, 0),
           s0 |-> GlyphScanNew(<<>>, 0, 0), s1 |-> GlyphScanNew(<<>>, 0, 0),
           g0 |-> MkGlyph(0, 0, 0, 0, 0, 0, 0),
           g1 |-> MkGlyph(0, 0, 0, 0, 0, 0, 0), cbs |-> <<>>]

InitDiff ==
    /\ page = PageNew(MaxSy, MaxSx, PageHfb)
    /\ prev = page.rows
    /\ overflow_checks \in BOOLEAN
    /\ \E old \in DiffRows(overflow_checks), new \in DiffRows(overflow_checks) :
            last = [NoDiff EXCEPT !.old = old, !.new = new]
    /\ nops = 0
    /\ panicked = "none"
    /\ TermStart

\* A step of Row::difference that leaves the fields l, or panics with trap.
DiffGoes(l, trap) ==
    /\ last' = IF trap = "none" THEN l ELSE [l EXCEPT !.op = "panic"]
    /\ panicked' = trap
    /\ UNCHANGED <<page, prev, nops, overflow_checks, termVars>>

\* Row::difference up to its loop: the early return for equal data, the
\* two scanners and the first glyph of each.
DiffStart ==
    /\ last.op = "new"
    /\ IF last.old.data = last.new.data
       THEN DiffGoes([last EXCEPT !.op = "done"], "none")
       ELSE \E r0 \in {GlyphScanNext(GlyphScanNew(last.old.data, page.sx,
                                                  Len(last.old.data)),
                                     overflow_checks)},
               r1 \in {GlyphScanNext(GlyphScanNew(last.new.data, page.sx,
                                                  Len(last.new.data)),
                                     overflow_checks)} :
                DiffGoes([last EXCEPT !.op = "loop", !.s0 = r0.gs, !.s1 = r1.gs,
                                      !.g0 = r0.g, !.g1 = r1.g],
                         IF r0.trap # "none" THEN r0.trap ELSE r1.trap)

\* The loop test and, if it holds, one turn of the loop.
DiffStep ==
    /\ last.op = "loop"
    /\ \E r0 \in {GlyphScanNext(last.s0, overflow_checks)},
          r1 \in {GlyphScanNext(last.s1, overflow_checks)} :
        IF ~(last.g0.x < page.sx \/ last.g1.x < page.sx)
        THEN DiffGoes([last EXCEPT !.op = "done"], "none")
        ELSE IF last.g0.x < last.g1.x
        THEN DiffGoes([last EXCEPT !.s0 = r0.gs, !.g0 = r0.g], r0.trap)
        ELSE IF GlyphEqual(last.g0, last.old.data, last.g1, last.new.data)
        THEN DiffGoes([last EXCEPT !.s0 = r0.gs, !.g0 = r0.g,
                                   !.s1 = r1.gs, !.g1 = r1.g],
                      IF r0.trap # "none" THEN r0.trap ELSE r1.trap)
        ELSE DiffGoes([last EXCEPT !.s1 = r1.gs, !.g1 = r1.g,
                                   !.cbs = Append(last.cbs, last.g1)],
                      r1.trap)

NextDiff == DiffStart \/ DiffStep

\* difference is straight-line code: once called it runs on.
SpecDiff == InitDiff /\ [][NextDiff]_vars /\ WF_vars(NextDiff)

\* A scan's distance from its end: the bytes left, a span still open, a
\* glyph in hand that is not the end marker.
DiffMeasure(gs, g) ==
    4 * Len(gs.p) + (IF gs.xend # 0 THEN 2 ELSE 0)
        + (IF g.x < page.sx THEN 1 ELSE 0)

\* Every turn of the loop that does not panic advances one of the scans.
DiffAdvances ==
    [][(last.op = "loop" /\ last'.op = "loop") =>
            \/ DiffMeasure(last'.s0, last'.g0) < DiffMeasure(last.s0, last.g0)
            \/ DiffMeasure(last'.s1, last'.g1) < DiffMeasure(last.s1, last.g1)]_vars

\* No call runs forever: it exits or panics.
DiffStops == <>(last.op \in {"done", "panic"})

\* C37: Row::difference, once called on two rows, runs on to the point
\* where both scans have given their end marker and its loop exits: it
\* does not stop short of that.
C37_DifferenceReachesExit ==
    /\ last.op # "panic"
    /\ (last.op = "done" /\ last.old.data # last.new.data) =>
            (last.g0.x >= page.sx /\ last.g1.x >= page.sx)

\* ===================================================================
\* Window-change signals: the self-pipe of Glue::new and handle_resize
\* ===================================================================
MaxWinch == 3

\* The buffer of the drain loop: `let mut buf = [0u8; 32]`.
WINCH_BUF == 32

WinSizes == {TtySize, <<TtySize[2], TtySize[1]>>, <<1, 1>>}

\* The window and the self-pipe: ws is the terminal's size, sig a SIGWINCH
\* the kernel has pending for the process, pipe the bytes in the pipe,
\* ready a READABLE event mio has for the pipe's source, pc where the
\* event's callback is ("idle", "drain", "call": handle_resize is queued),
\* seen the size at dispatch, rx the size of the last resize event
\* delivered, n the size changes and calls the handle_resize runs so far.
NoWinch == [op |-> "new", ws |-> TtySize, sig |-> FALSE, pipe |-> 0,
            ready |-> FALSE, pc |-> "idle", seen |-> TtySize, rx |-> TtySize,
            n |-> 0, calls |-> 0]

\* The controller after a clean Terminal::init, which has read the size
\* and delivered the first resize event.
InitWinch ==
    /\ page = PageNew(MaxSy, MaxSx, PageHfb)
    /\ prev = page.rows
    /\ last = NoWinch
    /\ nops = 0
    /\ overflow_checks = FALSE
    /\ panicked = "none"
    /\ TermReady
    /\ inp = InStart
    /\ tout = [TermOutNew EXCEPT !.size = TtySize]

WinchStep(l, op) ==
    /\ last' = [l EXCEPT !.op = op]
    /\ UNCHANGED <<page, prev, nops, overflow_checks, panicked, termVars>>

\* The user resizes the window: the size changes, then the kernel marks
\* SIGWINCH pending (one pending signal however many changes).
WindowChange(s) ==
    /\ Running
    /\ last.n < MaxWinch
    /\ s # last.ws
    /\ WinchStep([last EXCEPT !.ws = s, !.sig = TRUE, !.n = @ + 1], "change")

\* The handler signal_hook::pipe::register installed runs: one byte into
\* the pipe.  mio's source is edge-triggered: a byte into an empty pipe
\* makes it ready; a byte into a pipe that still holds bytes may or may
\* not raise a new event (edge).
SignalHandler(edge) ==
    /\ Running
    /\ last.sig
    /\ WinchStep([last EXCEPT !.sig = FALSE, !.pipe = @ + 1,
                              !.ready = IF last.pipe = 0 \/ edge THEN TRUE
                                        ELSE @],
                 "signal")

\* The event loop dispatches the READABLE event to the callback.
WinchDispatch ==
    /\ Deliverable
    /\ last.ready
    /\ last.pc = "idle"
    /\ WinchStep([last EXCEPT !.ready = FALSE, !.pc = "drain",
                              !.seen = last.ws], "dispatch")

\* One turn of `while 0 < libc::read(fd, buf, 32) {}`: up to 32 bytes are
\* taken; a read that finds nothing ends the loop and handle_resize is
\* called.
WinchRead ==
    /\ Deliverable
    /\ last.pc = "drain"
    /\ \E got \in {Min(last.pipe, WINCH_BUF)} :
        WinchStep([last EXCEPT !.pipe = @ - got,
                               !.pc = IF got > 0 THEN "drain" ELSE "call"],
                  "read")

\* The size as it was when the event was dispatched.
GlueGetSizeAtDispatch(l) == l.seen

\* Glue::get_size at the time handle_resize runs: the window's size now.
GlueGetSize(l) == l.ws

\* Terminal::handle_resize with the size get_size returns.
HandleResizeTo(w, size, so, ro) ==
    IF so = "ok"
    THEN [SetSize(w, size) EXCEPT !.hist.fwd = Append(@, "Some")]
    ELSE Failure(w, "size", ro)

\* The queued handle_resize runs.
WinchHandleResize(so, ro) ==
    /\ Deliverable
    /\ last.pc = "call"
    /\ \E w \in {HandleResizeTo(Begin("handle_resize"), GlueGetSize(last),
                                so, ro)} :
        /\ term' = w.term
        /\ tout' = w.tout
        /\ glue' = w.glue
        /\ hook' = w.hook
        /\ fd' = w.fd
        /\ env' = w.env
        /\ hist' = w.hist
        /\ last' = [last EXCEPT !.op = "handle_resize", !.pc = "idle",
                                !.calls = @ + 1,
                                !.rx = IF so = "ok" THEN w.tout.size ELSE @]
    /\ UNCHANGED <<page, prev, nops, overflow_checks, panicked, inp>>

NextWinch ==
    \/ \E s \in WinSizes : WindowChange(s)
    \/ \E edge \in BOOLEAN : SignalHandler(edge)
    \/ WinchDispatch
    \/ WinchRead
    \/ \E so \in SizeOutcomes, ro \in RestoreOutcomes : WinchHandleResize(so, ro)

\* The kernel delivers a pending signal, the event loop polls, and the
\* callback and the queued call run on; the user need not resize.
SpecWinch ==
    /\ InitWinch
    /\ [][NextWinch]_vars
    /\ WF_vars(\E edge \in BOOLEAN : SignalHandler(edge))
    /\ WF_vars(WinchDispatch)
    /\ WF_vars(WinchRead)
    /\ WF_vars(\E so \in SizeOutcomes, ro \in RestoreOutcomes :
                    WinchHandleResize(so, ro))

\* The last resize event delivered carried the window's size, and the
\* TermOut holds it.
WinchSynced == last.rx = last.ws /\ tout.size = last.ws

\* C38: once the window's size has stopped changing, a resize event with
\* that size is delivered and the TermOut holds that size from then on,
\* unless the controller has failed; however the signals, the dispatches
\* and the reads of the self-pipe interleave.
\* A byte that is in the pipe while the callback is not draining it came
\* after the drain: handle_resize runs once more, after the run that may
\* still be queued.
C38_FinalSizeDelivered ==
    /\ \A s \in WinSizes :
            <>[](last.ws = s) => <>[](WinchSynced \/ ~Deliverable)
    /\ \A k \in 0 .. MaxWinch :
            /\ (last.pipe > 0 /\ last.pc = "idle" /\ last.calls = k)
                    ~> (last.calls > k \/ ~Deliverable)
            /\ (last.pipe > 0 /\ last.pc = "call" /\ last.calls = k)
                    ~> (last.calls > k + 1 \/ ~Deliverable)

\* Three changes of size were served by fewer runs of handle_resize, and
\* the last event carried the final size.
C38_Witness ==
    /\ last.n = MaxWinch
    /\ last.calls < last.n
    /\ last.calls > 0
    /\ last.pc = "idle" /\ ~last.ready /\ ~last.sig /\ last.pipe = 0
    /\ last.ws # TtySize
    /\ WinchSynced
    /\ Deliverable

\* C39: between operations, while the controller lives and is not paused,
\* the installed panic hook is the cleanup closure holding the controller's
\* current cleanup string and the termios the glue currently holds saved,
\* and chains to the hook found at init.
C39_HookCapturesCurrent ==
    (Running /\ term.alive /\ ~term.paused) =>
        hook = MkHook("cleanup", term.cleanup, glue.saved, term.panic_hook)

\* A resume that ended the pause of a controller whose cleanup string had
\* been replaced through save_cleanup and flush.
C39_Witness ==
    /\ Running
    /\ hist.op = "resume"
    /\ hist.paused0
    /\ ~term.paused
    /\ term.alive
    /\ term.cleanup \notin {ESC_C, <<>>}
    /\ hook.kind = "cleanup"
    /\ hook.cleanup = term.cleanup
    /\ hook.saved = "cooked"

\* ------------------------------------------- the input across a pause
\* The input's steps together with Terminal::pause and Terminal::resume.
NextInPause ==
    \/ \E data \in InChunks, end \in ReadEnds : CallHandleDataIn(data, end)
    \/ \E enable \in BOOLEAN : CallCheck(enable)
    \/ FireForceTimer
    \/ FireCheckTimer
    \/ Tick
    \/ \E ro \in RestoreOutcomes : InputLive /\ ~term.paused /\ CallPause(ro)
    \/ \E raw \in RawOutcomes, so \in SizeOutcomes, ro \in RestoreOutcomes :
            InputLive /\ term.paused /\ CallResume(raw, so, ro)

SpecInPause == InitIn /\ [][NextInPause]_vars

\* C40: no step taken while the controller is paused forwards a key, be it
\* a key decoded from the input buffer or Key::Check.
C40_NoKeysWhilePaused ==
    [][term.paused => inp'.keys = inp.keys]_vars

====
